---------------------------- MODULE Spec2Model ----------------------------
(***************************************************************************)
(* A model of the BSOD analyzer: dump-format detection (core/parser.py),   *)
(* the two decoders (MinidumpParser, PageDumpParser), the known-bad driver *)
(* table (core/driver_detector.py), the attribution engine                 *)
(* (core/analyzer.py) and the batch loops (analyze_multiple, CLI batch).   *)
(*                                                                         *)
(* Conventions.  Python str values are TLA+ strings; where the code looks  *)
(* inside a string (lower(), the substring test `in`) the string is taken  *)
(* apart by Chars.  Formatted text (f-strings, join) is a sequence of      *)
(* string pieces and concatenation is \o.  File contents are sequences of  *)
(* bytes 0..255.  Confidence scores are kept in hundredths (0.15 is 15):   *)
(* every sum the code can form is exact in binary floating point up to the *)
(* clamp, so the hundredths are the float results.  None is a record with  *)
(* present = FALSE, a missing driver is index 0 into the driver list.      *)
(***************************************************************************)
EXTENDS Integers, Sequences, FiniteSets, TLC

VARIABLES
    files,              \* the file system: path i is files[i] = [exists, data, dump]
    dump_files,         \* the paths handed to the run, in input order
    mode,               \* "single" | "batch" (CLI batch) | "multiple" (analyze_multiple)
                        \* | "test_parse_file" (pagedump_parser.py's own entry point)
    entry,              \* how the parser of a file is built: create_parser or a constructor
    save,               \* CLI --save flag
    idx,                \* position in dump_files of the file being processed
    pc,                 \* the step the run is at
    log,                \* what has been done for the current file, in order: the
                        \* operations on the file and the writes to the driver table
    detected,           \* the format the last detection step settled on
    parser,             \* the parser object (self.parser of BSODAnalyzer)
    known_bad,          \* DriverDetector._known_bad (the module-level table)
    custom_db,          \* knowledge/known_bad_drivers.json, if it exists
    error,              \* the exception in flight, if any
    minidump_info,      \* analyze(): step 1
    crash_info,         \* analyze(): step 2
    drivers,            \* analyze(): step 3
    stack_traces,       \* analyze(): step 4
    suspected_driver,   \* analyze(): step 5, an index into drivers (0: None)
    suspected_cause,    \* analyze(): step 6
    recommendations,    \* analyze(): step 7
    confidence,         \* analyze(): step 8, in hundredths
    results,            \* the results list of the batch loop
    reported,           \* the failures the batch loop has printed / logged
    registers           \* what get_context_registers() of the kernel-dump parser returned

vars == <<files, dump_files, mode, entry, save, idx, pc, log, detected, parser, known_bad,
          custom_db, error, minidump_info, crash_info, drivers, stack_traces,
          suspected_driver, suspected_cause, recommendations, confidence,
          results, reported, registers>>

-----------------------------------------------------------------------------
(* Bounds of the model.                                                    *)

MaxModules == 2     \* longest module list of a minidump
MaxThreads == 2     \* most threads of a minidump
MaxFiles == 2       \* longest batch

-----------------------------------------------------------------------------
(* Sequences and strings.                                                  *)

Min(a, b) == IF a <= b THEN a ELSE b

Range(s) == {s[i] : i \in 1..Len(s)}

\* s[:n]
Take(s, n) == SubSeq(s, 1, Min(n, Len(s)))

RECURSIVE SeqsUpTo(_, _)
SeqsUpTo(S, n) ==
    IF n = 0 THEN {<<>>}
    ELSE LET shorter == SeqsUpTo(S, n - 1)
         IN  shorter \cup {Append(s, x) : s \in {t \in shorter : Len(t) = n - 1}, x \in S}

\* The characters of the strings the code looks inside.
CharsOf ==
    ("nvlddmkm.sys" :> <<"n", "v", "l", "d", "d", "m", "k", "m", ".", "s", "y", "s">>) @@
       ("amdkmdag.sys" :> <<"a", "m", "d", "k", "m", "d", "a", "g", ".", "s", "y", "s">>) @@
       ("igdkmd64.sys" :> <<"i", "g", "d", "k", "m", "d", "6", "4", ".", "s", "y", "s">>) @@
       ("rtwlanu.sys" :> <<"r", "t", "w", "l", "a", "n", "u", ".", "s", "y", "s">>) @@
       ("netr28x.sys" :> <<"n", "e", "t", "r", "2", "8", "x", ".", "s", "y", "s">>) @@
       ("avgtdix.sys" :> <<"a", "v", "g", "t", "d", "i", "x", ".", "s", "y", "s">>) @@
       ("avghwnda.sys" :> <<"a", "v", "g", "h", "w", "n", "d", "a", ".", "s", "y", "s">>) @@
       ("bdss.sys" :> <<"b", "d", "s", "s", ".", "s", "y", "s">>) @@
       ("symefa.sys" :> <<"s", "y", "m", "e", "f", "a", ".", "s", "y", "s">>) @@
       ("symevent.sys" :> <<"s", "y", "m", "e", "v", "e", "n", "t", ".", "s", "y", "s">>) @@
       ("epfwwfp.sys" :> <<"e", "p", "f", "w", "w", "f", "p", ".", "s", "y", "s">>) @@
       ("iaStorA.sys" :> <<"i", "a", "S", "t", "o", "r", "A", ".", "s", "y", "s">>) @@
       ("iaStorV.sys" :> <<"i", "a", "S", "t", "o", "r", "V", ".", "s", "y", "s">>) @@
       ("vmm.sys" :> <<"v", "m", "m", ".", "s", "y", "s">>) @@
       ("vboxdrv.sys" :> <<"v", "b", "o", "x", "d", "r", "v", ".", "s", "y", "s">>) @@
       ("vmci.sys" :> <<"v", "m", "c", "i", ".", "s", "y", "s">>) @@
       ("rgl64vk.sys" :> <<"r", "g", "l", "6", "4", "v", "k", ".", "s", "y", "s">>) @@
       (" Nahimic.sys" :> <<" ", "N", "a", "h", "i", "m", "i", "c", ".", "s", "y", "s">>) @@
       ("AiCharger.sys" :> <<"A", "i", "C", "h", "a", "r", "g", "e", "r", ".", "s", "y", "s">>) @@
       ("AsIO.sys" :> <<"A", "s", "I", "O", ".", "s", "y", "s">>) @@
       ("ks.sys" :> <<"k", "s", ".", "s", "y", "s">>) @@
       ("ntoskrnl.exe" :> <<"n", "t", "o", "s", "k", "r", "n", "l", ".", "e", "x", "e">>) @@
       ("hal.dll" :> <<"h", "a", "l", ".", "d", "l", "l">>) @@
       ("ntkrnlmp.exe" :> <<"n", "t", "k", "r", "n", "l", "m", "p", ".", "e", "x", "e">>) @@
       ("ntkrnlpa.exe" :> <<"n", "t", "k", "r", "n", "l", "p", "a", ".", "e", "x", "e">>) @@
       ("kernel32.dll" :> <<"k", "e", "r", "n", "e", "l", "3", "2", ".", "d", "l", "l">>) @@
       ("ntdll.dll" :> <<"n", "t", "d", "l", "l", ".", "d", "l", "l">>) @@
       ("win32k.sys" :> <<"w", "i", "n", "3", "2", "k", ".", "s", "y", "s">>) @@
       ("csrss.exe" :> <<"c", "s", "r", "s", "s", ".", "e", "x", "e">>) @@
       ("lsass.exe" :> <<"l", "s", "a", "s", "s", ".", "e", "x", "e">>) @@
       ("services.exe" :> <<"s", "e", "r", "v", "i", "c", "e", "s", ".", "e", "x", "e">>) @@
       ("svchost.exe" :> <<"s", "v", "c", "h", "o", "s", "t", ".", "e", "x", "e">>) @@
       ("explorer.exe" :> <<"e", "x", "p", "l", "o", "r", "e", "r", ".", "e", "x", "e">>) @@
       ("nvlddmkm" :> <<"n", "v", "l", "d", "d", "m", "k", "m">>) @@
       ("amdkmdag" :> <<"a", "m", "d", "k", "m", "d", "a", "g">>) @@
       ("igdkmd" :> <<"i", "g", "d", "k", "m", "d">>) @@
       ("nvidia" :> <<"n", "v", "i", "d", "i", "a">>) @@
       ("amd" :> <<"a", "m", "d">>) @@
       ("intel" :> <<"i", "n", "t", "e", "l">>) @@
       ("gpu" :> <<"g", "p", "u">>) @@
       ("net" :> <<"n", "e", "t">>) @@
       ("wifi" :> <<"w", "i", "f", "i">>) @@
       ("wlan" :> <<"w", "l", "a", "n">>) @@
       ("ethernet" :> <<"e", "t", "h", "e", "r", "n", "e", "t">>) @@
       ("realtek" :> <<"r", "e", "a", "l", "t", "e", "k">>) @@
       ("broadcom" :> <<"b", "r", "o", "a", "d", "c", "o", "m">>) @@
       ("stor" :> <<"s", "t", "o", "r">>) @@
       ("disk" :> <<"d", "i", "s", "k">>) @@
       ("raid" :> <<"r", "a", "i", "d">>) @@
       ("ahci" :> <<"a", "h", "c", "i">>) @@
       ("sata" :> <<"s", "a", "t", "a">>) @@
       ("audio" :> <<"a", "u", "d", "i", "o">>) @@
       ("sound" :> <<"s", "o", "u", "n", "d">>) @@
       ("hdaudio" :> <<"h", "d", "a", "u", "d", "i", "o">>) @@
       ("conexant" :> <<"c", "o", "n", "e", "x", "a", "n", "t">>) @@
       ("antivirus" :> <<"a", "n", "t", "i", "v", "i", "r", "u", "s">>) @@
       ("firewall" :> <<"f", "i", "r", "e", "w", "a", "l", "l">>) @@
       ("security" :> <<"s", "e", "c", "u", "r", "i", "t", "y">>) @@
       ("bdss" :> <<"b", "d", "s", "s">>) @@
       ("avg" :> <<"a", "v", "g">>) @@
       ("norton" :> <<"n", "o", "r", "t", "o", "n">>) @@
       ("vbox" :> <<"v", "b", "o", "x">>) @@
       ("vmware" :> <<"v", "m", "w", "a", "r", "e">>) @@
       ("virtual" :> <<"v", "i", "r", "t", "u", "a", "l">>) @@
       ("myfault.sys" :> <<"m", "y", "f", "a", "u", "l", "t", ".", "s", "y", "s">>) @@
       ("NVLDDMKM.SYS" :> <<"N", "V", "L", "D", "D", "M", "K", "M", ".", "S", "Y", "S">>) @@
       ("C:\\ks.sys.old\\nvlddmkm.sys" :> <<"C", ":", "\\", "k", "s", ".", "s", "y", "s", ".", "o", "l", "d", "\\", "n", "v", "l", "d", "d", "m", "k", "m", ".", "s", "y", "s">>) @@
       ("C:\\Windows\\System32\\ntoskrnl.exe" :> <<"C", ":", "\\", "W", "i", "n", "d", "o", "w", "s", "\\", "S", "y", "s", "t", "e", "m", "3", "2", "\\", "n", "t", "o", "s", "k", "r", "n", "l", ".", "e", "x", "e">>)

Chars(s) == CharsOf[s]

UpperCase == <<"A", "B", "C", "D", "E", "F", "G", "H", "I", "J", "K", "L", "M",
               "N", "O", "P", "Q", "R", "S", "T", "U", "V", "W", "X", "Y", "Z">>
LowerCase == <<"a", "b", "c", "d", "e", "f", "g", "h", "i", "j", "k", "l", "m",
               "n", "o", "p", "q", "r", "s", "t", "u", "v", "w", "x", "y", "z">>

LowerChar(c) ==
    IF \E i \in 1..Len(UpperCase) : UpperCase[i] = c
    THEN LowerCase[CHOOSE i \in 1..Len(UpperCase) : UpperCase[i] = c]
    ELSE c

\* str.lower(), on characters
Lower(cs) == [i \in 1..Len(cs) |-> LowerChar(cs[i])]

\* needle in hay, on characters
Contains(hay, needle) ==
    \E i \in 0..(Len(hay) - Len(needle)) :
        SubSeq(hay, i + 1, i + Len(needle)) = needle

\* sep.join(parts), as pieces
RECURSIVE Join(_, _)
Join(parts, sep) ==
    IF Len(parts) = 0 THEN <<>>
    ELSE IF Len(parts) = 1 THEN <<parts[1]>>
    ELSE <<parts[1], sep>> \o Join(Tail(parts), sep)

\* list(set(xs)): the elements once each, in an order the set type chooses
ListOfSet(S) ==
    {s \in [1..Cardinality(S) -> S] : \A x \in S : \E i \in 1..Cardinality(S) : s[i] = x}

NoDuplicates(s) == \A i, j \in 1..Len(s) : s[i] = s[j] => i = j

-----------------------------------------------------------------------------
(* core/driver_detector.py                                                 *)

KNOWN_BAD_DRIVERS ==
    <<
       [key |-> "nvlddmkm.sys",
        issue |-> "NVIDIA GPU driver - known to cause BSOD with certain configurations",
        recommendation |-> "Update to latest NVIDIA driver or perform clean install"],
       [key |-> "amdkmdag.sys",
        issue |-> "AMD GPU driver - can cause crashes with certain hardware",
        recommendation |-> "Update AMD graphics drivers"],
       [key |-> "igdkmd64.sys",
        issue |-> "Intel GPU driver - may cause system instability",
        recommendation |-> "Update Intel graphics driver"],
       [key |-> "rtwlanu.sys",
        issue |-> "Realtek USB WiFi driver - known stability issues",
        recommendation |-> "Update Realtek driver or use alternative WiFi adapter"],
       [key |-> "netr28x.sys",
        issue |-> "Ralink network driver - can cause BSOD",
        recommendation |-> "Update or replace network driver"],
       [key |-> "avgtdix.sys",
        issue |-> "AVG Antivirus driver - known conflicts",
        recommendation |-> "Update AVG or temporarily disable for testing"],
       [key |-> "avghwnda.sys",
        issue |-> "AVG driver component",
        recommendation |-> "Update AVG Antivirus"],
       [key |-> "bdss.sys",
        issue |-> "BitDefender security driver",
        recommendation |-> "Update BitDefender or check for conflicts"],
       [key |-> "symefa.sys",
        issue |-> "Symantec/Norton driver",
        recommendation |-> "Update Norton Security"],
       [key |-> "symevent.sys",
        issue |-> "Symantec event driver",
        recommendation |-> "Update or remove Symantec product"],
       [key |-> "epfwwfp.sys",
        issue |-> "ESET firewall driver",
        recommendation |-> "Update ESET Security"],
       [key |-> "iaStorA.sys",
        issue |-> "Intel RST driver - can cause BSOD with certain SSDs",
        recommendation |-> "Update Intel Rapid Storage Technology driver"],
       [key |-> "iaStorV.sys",
        issue |-> "Intel storage driver",
        recommendation |-> "Update Intel RST driver"],
       [key |-> "vmm.sys",
        issue |-> "VirtualBox memory manager",
        recommendation |-> "Update VirtualBox or disable if not in use"],
       [key |-> "vboxdrv.sys",
        issue |-> "VirtualBox driver",
        recommendation |-> "Update VirtualBox"],
       [key |-> "vmci.sys",
        issue |-> "VMware CI driver",
        recommendation |-> "Update VMware Workstation"],
       [key |-> "rgl64vk.sys",
        issue |-> "Razer game capture driver",
        recommendation |-> "Update Razer software"],
       [key |-> " Nahimic.sys",
        issue |-> "Nahimic audio driver - known BSOD issues",
        recommendation |-> "Update or disable Nahimic audio service"],
       [key |-> "AiCharger.sys",
        issue |-> "ASUS AI Charger driver",
        recommendation |-> "Update or remove ASUS AI Suite"],
       [key |-> "AsIO.sys",
        issue |-> "ASUS I/O driver for monitoring",
        recommendation |-> "Update ASUS software"],
       [key |-> "ks.sys",
        issue |-> "Windows kernel streaming - usually third-party filter driver issue",
        recommendation |-> "Check audio/video capture software drivers"]
    >>

system_drivers ==
    <<"ntoskrnl.exe", "hal.dll", "ntkrnlmp.exe", "ntkrnlpa.exe", "kernel32.dll",
      "ntdll.dll", "win32k.sys", "csrss.exe", "lsass.exe", "services.exe",
      "svchost.exe", "explorer.exe">>

type_keywords ==
    << [type |-> "graphics",
        keywords |-> <<"nvlddmkm", "amdkmdag", "igdkmd", "nvidia", "amd", "intel", "gpu">>],
       [type |-> "network",
        keywords |-> <<"net", "wifi", "wlan", "ethernet", "realtek", "broadcom">>],
       [type |-> "storage",
        keywords |-> <<"stor", "disk", "raid", "ahci", "sata">>],
       [type |-> "audio",
        keywords |-> <<"audio", "sound", "hdaudio", "realtek", "conexant">>],
       [type |-> "security",
        keywords |-> <<"antivirus", "firewall", "security", "bdss", "avg", "norton">>],
       [type |-> "virtualization",
        keywords |-> <<"vbox", "vmware", "virtual">>] >>

\* Optional[str]
NoText == [present |-> FALSE, text |-> <<>>]
SomeText(t) == [present |-> TRUE, text |-> t]

\* name.lower(), for every name of the model
lower == [s \in DOMAIN CharsOf |-> Lower(CharsOf[s])]

\* bad_driver.lower() in driver_name.lower(), for every pair of names
key_in_name ==
    [k \in DOMAIN CharsOf |-> [n \in DOMAIN CharsOf |-> Contains(lower[n], lower[k])]]

\* The positions of the table entries whose key matches the name.
MatchingKeys(table, name) ==
    {i \in 1..Len(table) : key_in_name[table[i].key][name]}

FirstMatch(table, name) ==
    CHOOSE i \in MatchingKeys(table, name) : \A j \in MatchingKeys(table, name) : i <= j

is_problematic(table, driver) == MatchingKeys(table, driver.name) # {}

get_known_issue(table, driver) ==
    IF MatchingKeys(table, driver.name) = {} THEN NoText
    ELSE LET info == table[FirstMatch(table, driver.name)]
         IN  SomeText(<<info.issue, ". ", info.recommendation>>)

\* get_recommendation taking the text of the last matching key.
get_recommendation_last_match(table, driver) ==
    IF MatchingKeys(table, driver.name) = {} THEN NoText
    ELSE LET last == CHOOSE i \in MatchingKeys(table, driver.name) :
                         \A j \in MatchingKeys(table, driver.name) : j <= i
         IN  SomeText(<<table[last].recommendation>>)

get_recommendation(table, driver) ==
    IF MatchingKeys(table, driver.name) = {} THEN NoText
    ELSE SomeText(<<table[FirstMatch(table, driver.name)].recommendation>>)

is_system_driver(driver_name) ==
    \E i \in 1..Len(system_drivers) :
        lower[driver_name] = lower[system_drivers[i]]

KeywordMatch(name, i) ==
    \E k \in 1..Len(type_keywords[i].keywords) :
        Contains(lower[name], Chars(type_keywords[i].keywords[k]))

classify_driver(driver) ==
    IF is_system_driver(driver.name) THEN "system"
    ELSE IF \E i \in 1..Len(type_keywords) : KeywordMatch(driver.name, i)
    THEN type_keywords[CHOOSE i \in 1..Len(type_keywords) :
                           /\ KeywordMatch(driver.name, i)
                           /\ \A j \in 1..(i - 1) : ~KeywordMatch(driver.name, j)].type
    ELSE "unknown"

-----------------------------------------------------------------------------
(* The bugcheck knowledge base (core/bugcheck_kb.py): a read-only table    *)
(* from code to name, description, common causes and recommendations, with *)
(* a generic record for a code it does not know.                           *)

IRQL_NOT_LESS_OR_EQUAL == 10            \* 0x0A
SYSTEM_SERVICE_EXCEPTION == 59          \* 0x3B
DRIVER_IRQL_NOT_LESS_OR_EQUAL == 209    \* 0xD1
PAGE_FAULT_IN_NONPAGED_AREA == 80       \* 0x50
SYSTEM_THREAD_EXCEPTION_NOT_HANDLED == 126  \* 0x7E
KMODE_EXCEPTION_NOT_HANDLED == 30       \* 0x1E
KERNEL_MODE_HEAP_CORRUPTION == 314      \* 0x13A
BAD_POOL_HEADER == 25                   \* 0x19

GraphicsHint == <<"Graphics drivers are often the cause - try a clean install of GPU drivers">>
NetworkHint == <<"Network driver issues - update or temporarily disable network adapters">>

KbUnknown ==
    [name |-> "UNKNOWN_BUGCHECK",
     description |-> "Unknown bugcheck code",
     common_causes |-> <<>>,
     recommendations |-> <<<<"Check Windows Event Viewer for more details">>>>]

KbRecord(code) ==
    CASE code = IRQL_NOT_LESS_OR_EQUAL ->
           [name |-> "IRQL_NOT_LESS_OR_EQUAL",
            description |-> "A kernel-mode process or driver attempted to access a memory address without proper access",
            common_causes |-> <<"Faulty device drivers", "Incompatible hardware",
                                "Corrupted system files", "Faulty RAM">>,
            recommendations |-> <<<<"Update device drivers">>,
                                  <<"Update device drivers">>>>]
      [] code = DRIVER_IRQL_NOT_LESS_OR_EQUAL ->
           [name |-> "DRIVER_IRQL_NOT_LESS_OR_EQUAL",
            description |-> "A driver attempted to access pageable memory at a process IRQL that was too high",
            common_causes |-> <<"Faulty device drivers">>,
            recommendations |-> <<<<"Driver-specific: ",
                                    "Update to latest NVIDIA driver or perform clean install">>,
                                  GraphicsHint>>]
      [] code = BAD_POOL_HEADER ->
           [name |-> "BAD_POOL_HEADER",
            description |-> "A pool header is corrupted",
            common_causes |-> <<>>,
            recommendations |-> <<<<"Update device drivers">>>>]
      [] OTHER -> KbUnknown

get_bugcheck_info(code) == <<KbRecord(code).name, KbRecord(code).description>>
get_description(code) == KbRecord(code).description
get_common_causes(code) == KbRecord(code).common_causes
get_recommendations(code) == KbRecord(code).recommendations

-----------------------------------------------------------------------------
(* Bytes and files.                                                        *)

Byte == 0..255

MDMP == <<77, 68, 77, 80>>
PAGEDU64 == <<80, 65, 71, 69, 68, 85, 54, 52>>
PAGEDU48 == <<80, 65, 71, 69, 68, 85, 52, 56>>

HexDigits == <<"0", "1", "2", "3", "4", "5", "6", "7", "8", "9",
               "a", "b", "c", "d", "e", "f">>

\* bytes.hex()
Hex(bs) ==
    [i \in 1..(2 * Len(bs)) |->
        IF i % 2 = 1 THEN HexDigits[(bs[(i + 1) \div 2] \div 16) + 1]
                     ELSE HexDigits[(bs[i \div 2] % 16) + 1]]

\* bytes.fromhex(): what a reader of the message gets back
HexValue(d) == CHOOSE v \in 0..15 : HexDigits[v + 1] = d
FromHex(hs) == [i \in 1..(Len(hs) \div 2) |-> 16 * HexValue(hs[2 * i - 1]) + HexValue(hs[2 * i])]

\* little-endian value of a byte string
RECURSIVE FromLE(_)
FromLE(bs) == IF bs = <<>> THEN 0 ELSE bs[1] + 256 * FromLE(Tail(bs))

\* the k little-endian bytes of n
RECURSIVE ToLE(_, _)
ToLE(n, k) == IF k = 0 THEN <<>> ELSE <<n % 256>> \o ToLE(n \div 256, k - 1)

Zeros(n) == [i \in 1..n |-> 0]

\* What the minidump library makes of a file (MinidumpFile.parse): it fails, or
\* gives the streams it found.  A stream that is absent has present = FALSE.
NoSysInfo == [present |-> FALSE, processor_architecture |-> 0, number_of_processors |-> 0]
NoModules == [present |-> FALSE, modules |-> <<>>]
NoThreads == [present |-> FALSE, threads |-> <<>>]
NoException ==
    [present |-> FALSE, raises |-> FALSE, exception_code |-> 0, exception_address |-> 0,
     thread_id |-> 0, exception_parameters |-> <<>>]
NoDump ==
    [loads |-> FALSE, sysinfo |-> NoSysInfo, modules |-> NoModules,
     threads |-> NoThreads, exception |-> NoException]

NoHeader ==
    [signature |-> <<>>, major_version |-> 0, minor_version |-> 0,
     directory_table_base |-> 0, ps_loaded_module_list |-> 0,
     machine_image_type |-> 0, number_processors |-> 0, bugcheck_code |-> 0,
     bugcheck_parameter1 |-> 0, bugcheck_parameter2 |-> 0,
     bugcheck_parameter3 |-> 0, bugcheck_parameter4 |-> 0]

NoParser ==
    [kind |-> "None", file_path |-> 0, dump_type |-> "None",
     minidump |-> NoDump, header |-> NoHeader]

NoError == [type |-> "None", msg |-> "", hex |-> <<>>, raw |-> <<>>]
Raise(type, msg) == [type |-> type, msg |-> msg, hex |-> <<>>, raw |-> <<>>]

-----------------------------------------------------------------------------
(* core/parser.py: create_parser and MinidumpParser.__init__               *)

\* create_parser with the minidump magic compared against all 8 bytes read.
create_parser_whole_magic(f) ==
    IF ~f.exists
    THEN [log |-> <<"exists">>,
          error |-> Raise("FileNotFoundError", "Dump file not found"),
          next |-> "raised"]
    ELSE IF Len(f.data) = 0
    THEN [log |-> <<"exists", "stat">>,
          error |-> Raise("ValueError", "Empty dump file"),
          next |-> "raised"]
    ELSE LET signature == Take(f.data, 8)
         IN  IF Take(signature, 8) = PAGEDU64
             THEN [log |-> <<"exists", "stat", "read", "signature">>,
                   error |-> NoError, next |-> "PageDumpParser"]
             ELSE IF Take(signature, 8) = MDMP
             THEN [log |-> <<"exists", "stat", "read", "signature">>,
                   error |-> NoError, next |-> "MinidumpParser"]
             ELSE [log |-> <<"exists", "stat", "read", "signature">>,
                   error |-> [type |-> "ValueError",
                              msg |-> "Unsupported dump file signature",
                              hex |-> Hex(Take(signature, 8)), raw |-> <<>>],
                   next |-> "raised"]

\* The outcome of a constructor or factory: what it did to the file, the
\* exception it raised (NoError: none) and what it built.
create_parser(f) ==
    IF ~f.exists
    THEN [log |-> <<"exists">>,
          error |-> Raise("FileNotFoundError", "Dump file not found"),
          next |-> "raised"]
    ELSE IF Len(f.data) = 0
    THEN [log |-> <<"exists", "stat">>,
          error |-> Raise("ValueError", "Empty dump file"),
          next |-> "raised"]
    ELSE LET signature == Take(f.data, 8)
         IN  IF Take(signature, 8) = PAGEDU64
             THEN [log |-> <<"exists", "stat", "read", "signature">>,
                   error |-> NoError, next |-> "PageDumpParser"]
             ELSE IF Take(signature, 4) = MDMP
             THEN [log |-> <<"exists", "stat", "read", "signature">>,
                   error |-> NoError, next |-> "MinidumpParser"]
             ELSE [log |-> <<"exists", "stat", "read", "signature">>,
                   error |-> [type |-> "ValueError",
                              msg |-> "Unsupported dump file signature",
                              hex |-> Hex(Take(signature, 8)), raw |-> <<>>],
                   next |-> "raised"]

MinidumpParser_validate_file(f) ==
    IF ~f.exists
    THEN [log |-> <<"exists">>,
          error |-> Raise("FileNotFoundError", "Dump file not found"),
          dump_type |-> "None"]
    ELSE IF Len(f.data) = 0
    THEN [log |-> <<"exists", "stat">>,
          error |-> Raise("ValueError", "Empty dump file"),
          dump_type |-> "None"]
    ELSE LET signature == Take(f.data, 8)
         IN  IF Take(signature, 4) = MDMP
             THEN [log |-> <<"exists", "stat", "read", "signature">>,
                   error |-> NoError, dump_type |-> "minidump"]
             ELSE IF Take(signature, 8) = PAGEDU64
             THEN [log |-> <<"exists", "stat", "read", "signature">>,
                   error |-> NoError, dump_type |-> "kernel_x64"]
             ELSE IF Take(signature, 8) = PAGEDU48
             THEN [log |-> <<"exists", "stat", "read", "signature">>,
                   error |-> NoError, dump_type |-> "kernel_x86"]
             ELSE [log |-> <<"exists", "stat", "read", "signature">>,
                   error |-> [type |-> "ValueError",
                              msg |-> "Invalid dump file signature",
                              hex |-> Hex(Take(signature, 8)), raw |-> <<>>],
                   dump_type |-> "None"]

\* _load_minidump: any failure of the library becomes a RuntimeError
MinidumpParser_load_minidump(f) ==
    IF f.dump.loads
    THEN [log |-> <<"load_minidump">>, error |-> NoError, minidump |-> f.dump]
    ELSE [log |-> <<"load_minidump">>,
          error |-> Raise("RuntimeError", "Failed to parse dump file"),
          minidump |-> NoDump]

-----------------------------------------------------------------------------
(* core/pagedump_parser.py: PageDumpParser.__init__                        *)

OFFSET_SIGNATURE == 0
OFFSET_MAJOR_VERSION == 8
OFFSET_MINOR_VERSION == 12
OFFSET_DIRECTORY_TABLE_BASE == 16
OFFSET_MACHINE_IMAGE_TYPE == 48
OFFSET_NUMBER_PROCESSORS == 52
OFFSET_BUGCHECK_CODE == 64
OFFSET_BUGCHECK_PARAM1 == 68
OFFSET_BUGCHECK_PARAM2 == 76
OFFSET_BUGCHECK_PARAM3 == 84
OFFSET_BUGCHECK_PARAM4 == 92
OFFSET_CONTEXT_RECORD == 512

IMAGE_FILE_MACHINE_I386 == 332
IMAGE_FILE_MACHINE_AMD64 == 34404
IMAGE_FILE_MACHINE_IA64 == 512
IMAGE_FILE_MACHINE_ARM64 == 43620

\* f.seek(offset); f.read(size)
read_bytes(data, offset, size) ==
    IF offset >= Len(data) THEN <<>>
    ELSE SubSeq(data, offset + 1, Min(offset + size, Len(data)))

\* struct.unpack needs exactly the bytes of the format
read_u32(data, offset) ==
    LET bs == read_bytes(data, offset, 4)
    IN  [ok |-> Len(bs) = 4, value |-> IF Len(bs) = 4 THEN FromLE(bs) ELSE 0]

read_u64(data, offset) ==
    LET bs == read_bytes(data, offset, 8)
    IN  [ok |-> Len(bs) = 8, value |-> IF Len(bs) = 8 THEN FromLE(bs) ELSE 0]

\* _validate_file with the signature read before the size is looked at.
PageDumpParser_validate_file_reads_first(f) ==
    IF ~f.exists
    THEN [log |-> <<"exists">>,
          error |-> Raise("FileNotFoundError", "Dump file not found")]
    ELSE LET signature == read_bytes(f.data, 0, 8)
         IN  IF signature # PAGEDU64
             THEN [log |-> <<"exists", "read", "signature">>,
                   error |-> [type |-> "ValueError",
                              msg |-> "Invalid PAGEDU64 signature",
                              hex |-> <<>>, raw |-> signature]]
             ELSE [log |-> <<"exists", "read", "signature", "stat">>,
                   error |-> NoError]

PageDumpParser_validate_file(f) ==
    IF ~f.exists
    THEN [log |-> <<"exists">>,
          error |-> Raise("FileNotFoundError", "Dump file not found")]
    ELSE IF Len(f.data) = 0
    THEN [log |-> <<"exists", "stat">>,
          error |-> Raise("ValueError", "Empty dump file")]
    ELSE LET signature == read_bytes(f.data, 0, 8)
         IN  IF signature # PAGEDU64
             THEN [log |-> <<"exists", "stat", "read", "signature">>,
                   error |-> [type |-> "ValueError",
                              msg |-> "Invalid PAGEDU64 signature",
                              hex |-> <<>>, raw |-> signature]]
             ELSE [log |-> <<"exists", "stat", "read", "signature", "stat">>,
                   error |-> NoError]

PageDumpParser_parse_header(data) ==
    LET major == read_u32(data, OFFSET_MAJOR_VERSION)
        minor == read_u32(data, OFFSET_MINOR_VERSION)
        dtb == read_u64(data, OFFSET_DIRECTORY_TABLE_BASE)
        machine == read_u32(data, OFFSET_MACHINE_IMAGE_TYPE)
        nproc == read_u32(data, OFFSET_NUMBER_PROCESSORS)
        code == read_u32(data, OFFSET_BUGCHECK_CODE)
        p1 == read_u64(data, OFFSET_BUGCHECK_PARAM1)
        p2 == read_u64(data, OFFSET_BUGCHECK_PARAM2)
        p3 == read_u64(data, OFFSET_BUGCHECK_PARAM3)
        p4 == read_u64(data, OFFSET_BUGCHECK_PARAM4)
    IN  IF /\ major.ok /\ minor.ok /\ dtb.ok /\ machine.ok /\ nproc.ok
           /\ code.ok /\ p1.ok /\ p2.ok /\ p3.ok /\ p4.ok
        THEN [log |-> <<"parse_header">>, error |-> NoError,
              header |-> [signature |-> read_bytes(data, OFFSET_SIGNATURE, 8),
                          major_version |-> major.value,
                          minor_version |-> minor.value,
                          directory_table_base |-> dtb.value,
                          ps_loaded_module_list |-> 0,
                          machine_image_type |-> machine.value,
                          number_processors |-> nproc.value,
                          bugcheck_code |-> code.value,
                          bugcheck_parameter1 |-> p1.value,
                          bugcheck_parameter2 |-> p2.value,
                          bugcheck_parameter3 |-> p3.value,
                          bugcheck_parameter4 |-> p4.value]]
        ELSE [log |-> <<"parse_header">>,
              error |-> Raise("struct.error", "unpack requires a buffer"),
              header |-> NoHeader]

-----------------------------------------------------------------------------
(* core/parser.py: the decoder operations of MinidumpParser                *)

MAX_FRAMES == 50

NoInfo ==
    [file_path |-> 0, file_size |-> 0, cpu_architecture |-> "None",
     number_of_processors |-> 0, physical_memory |-> 0]

NoExceptionRecord ==
    [present |-> FALSE, exception_code |-> 0, exception_address |-> 0,
     thread_id |-> 0, exception_parameters |-> <<>>]

NoCrashInfo ==
    [bugcheck_code |-> 0, bugcheck_name |-> "", bugcheck_description |-> "",
     crash_address |-> 0, crash_thread_id |-> 0,
     exception_record |-> NoExceptionRecord, parameters |-> <<>>]

MinidumpArch(code) ==
    CASE code = 0 -> "INTEL"
      [] code = 9 -> "AMD64"
      [] code = 6 -> "IA64"
      [] code = 5 -> "ARM"
      [] code = 12 -> "ARM64"
      [] code = 65535 -> "UNKNOWN"
      [] OTHER -> "UNKNOWN(code)"

\* parse(): reading a field of an absent system-info stream raises
MinidumpParser_parse(p, f) ==
    IF ~p.minidump.sysinfo.present
    THEN [error |-> Raise("AttributeError", "NoneType has no attribute processor_architecture"),
          info |-> NoInfo]
    ELSE [error |-> NoError,
          info |-> [file_path |-> p.file_path,
                    file_size |-> Len(f.data),
                    cpu_architecture |-> MinidumpArch(p.minidump.sysinfo.processor_architecture),
                    number_of_processors |-> p.minidump.sysinfo.number_of_processors,
                    physical_memory |-> 0]]

\* get_exception_record without its try / except: an exception stream whose
\* decoding fails is used as far as it was read.
MinidumpParser_get_exception_record_unguarded(md) ==
    IF md.exception.present
    THEN [present |-> TRUE,
          exception_code |-> md.exception.exception_code,
          exception_address |-> md.exception.exception_address,
          thread_id |-> md.exception.thread_id,
          exception_parameters |-> md.exception.exception_parameters]
    ELSE NoExceptionRecord

MinidumpParser_get_exception_record(md) ==
    IF md.exception.present /\ ~md.exception.raises
    THEN [present |-> TRUE,
          exception_code |-> md.exception.exception_code,
          exception_address |-> md.exception.exception_address,
          thread_id |-> md.exception.thread_id,
          exception_parameters |-> md.exception.exception_parameters]
    ELSE NoExceptionRecord

\* extract_crash_info taking the crash address from the first parameter of the
\* exception record.
MinidumpParser_extract_crash_info_first_parameter(md) ==
    LET exception == MinidumpParser_get_exception_record(md)
        bugcheck_code == IF exception.present THEN exception.exception_code ELSE 0
        crash_address ==
            IF exception.present /\ exception.exception_parameters # <<>>
            THEN exception.exception_parameters[1]
            ELSE 0
        info == get_bugcheck_info(bugcheck_code)
    IN  [bugcheck_code |-> bugcheck_code,
         bugcheck_name |-> info[1],
         bugcheck_description |-> info[2],
         crash_address |-> crash_address,
         crash_thread_id |-> IF exception.present THEN exception.thread_id ELSE 0,
         exception_record |-> exception,
         parameters |-> IF exception.present THEN exception.exception_parameters ELSE <<>>]

MinidumpParser_extract_crash_info(md) ==
    LET exception == MinidumpParser_get_exception_record(md)
        bugcheck_code == IF exception.present THEN exception.exception_code ELSE 0
        crash_address == IF exception.present THEN exception.exception_address ELSE 0
        info == get_bugcheck_info(bugcheck_code)
    IN  [bugcheck_code |-> bugcheck_code,
         bugcheck_name |-> info[1],
         bugcheck_description |-> info[2],
         crash_address |-> crash_address,
         crash_thread_id |-> IF exception.present THEN exception.thread_id ELSE 0,
         exception_record |-> exception,
         parameters |-> IF exception.present THEN exception.exception_parameters ELSE <<>>]

DriverInfo(name, base_address, size) ==
    [name |-> name, base_address |-> base_address, size |-> size, is_problematic |-> FALSE]

\* an absent module stream raises AttributeError, which is caught
MinidumpParser_get_loaded_drivers(md) ==
    IF ~md.modules.present THEN <<>>
    ELSE [i \in 1..Len(md.modules.modules) |->
            DriverInfo(md.modules.modules[i].name,
                       md.modules.modules[i].base_address,
                       md.modules.modules[i].size)]

\* module.base_address <= address < module.base_address + module.size
ModuleContains(module, address) ==
    module.base_address <= address /\ address < module.base_address + module.size

\* the name of the first module of the stream that contains the address
MinidumpParser_find_module_for_address(md, address) ==
    IF ~md.modules.present THEN "Unknown"
    ELSE IF \E i \in 1..Len(md.modules.modules) : ModuleContains(md.modules.modules[i], address)
    THEN md.modules.modules[CHOOSE i \in 1..Len(md.modules.modules) :
                                /\ ModuleContains(md.modules.modules[i], address)
                                /\ \A j \in 1..(i - 1) :
                                       ~ModuleContains(md.modules.modules[j], address)].name
    ELSE "Unknown"

StackFrame(md, address) ==
    [instruction_address |-> address,
     module_name |-> MinidumpParser_find_module_for_address(md, address),
     offset |-> 0]

\* The walk of one thread with the frames recovered before a failure kept.
ThreadFrames_keeps_partial(md, thread) ==
    [i \in 1..Min(Len(thread.walk.addrs), MAX_FRAMES) |-> StackFrame(md, thread.walk.addrs[i])]

\* One thread of get_stack_traces.  thread.stack.walk() yields walk.addrs and then,
\* if walk.raises, raises; the loop leaves at MAX_FRAMES frames.
ThreadFrames(md, thread) ==
    IF Len(thread.walk.addrs) >= MAX_FRAMES
    THEN [i \in 1..MAX_FRAMES |-> StackFrame(md, thread.walk.addrs[i])]
    ELSE IF thread.walk.raises THEN <<>>
    ELSE [i \in 1..Len(thread.walk.addrs) |-> StackFrame(md, thread.walk.addrs[i])]

RECURSIVE StackTracesOf(_, _)
StackTracesOf(md, threads) ==
    IF threads = <<>> THEN <<>>
    ELSE LET frames == ThreadFrames(md, Head(threads))
             rest == StackTracesOf(md, Tail(threads))
         IN  IF frames = <<>> THEN rest
             ELSE <<[thread_id |-> Head(threads).thread_id, frames |-> frames]>> \o rest

MinidumpParser_get_stack_traces(md) ==
    IF ~md.threads.present THEN <<>>
    ELSE StackTracesOf(md, md.threads.threads)

-----------------------------------------------------------------------------
(* core/pagedump_parser.py: the decoder operations of PageDumpParser       *)

PageDumpArch(machine) ==
    CASE machine = IMAGE_FILE_MACHINE_AMD64 -> "AMD64"
      [] machine = IMAGE_FILE_MACHINE_I386 -> "I386"
      [] machine = IMAGE_FILE_MACHINE_IA64 -> "IA64"
      [] machine = IMAGE_FILE_MACHINE_ARM64 -> "ARM64"
      [] OTHER -> "UNKNOWN(machine)"

PageDumpParser_parse(p, f) ==
    [error |-> NoError,
     info |-> [file_path |-> p.file_path,
               file_size |-> Len(f.data),
               cpu_architecture |-> PageDumpArch(p.header.machine_image_type),
               number_of_processors |-> p.header.number_processors,
               physical_memory |-> 0]]

\* extract_crash_info taking the code from the first parameter's field.
PageDumpParser_extract_crash_info_from_parameter(header) ==
    LET info == get_bugcheck_info(header.bugcheck_parameter1)
        crash_address == header.bugcheck_parameter1
        parameters == <<header.bugcheck_parameter1, header.bugcheck_parameter2,
                        header.bugcheck_parameter3, header.bugcheck_parameter4>>
    IN  [bugcheck_code |-> header.bugcheck_parameter1,
         bugcheck_name |-> info[1],
         bugcheck_description |-> info[2],
         crash_address |-> crash_address,
         crash_thread_id |-> 0,
         exception_record |-> [present |-> TRUE,
                               exception_code |-> header.bugcheck_parameter1,
                               exception_address |-> crash_address,
                               thread_id |-> 0,
                               exception_parameters |-> parameters],
         parameters |-> parameters]

PageDumpParser_extract_crash_info(header) ==
    LET info == get_bugcheck_info(header.bugcheck_code)
        crash_address == header.bugcheck_parameter1
        parameters == <<header.bugcheck_parameter1, header.bugcheck_parameter2,
                        header.bugcheck_parameter3, header.bugcheck_parameter4>>
    IN  [bugcheck_code |-> header.bugcheck_code,
         bugcheck_name |-> info[1],
         bugcheck_description |-> info[2],
         crash_address |-> crash_address,
         crash_thread_id |-> 0,
         exception_record |-> [present |-> TRUE,
                               exception_code |-> header.bugcheck_code,
                               exception_address |-> crash_address,
                               thread_id |-> 0,
                               exception_parameters |-> parameters],
         parameters |-> parameters]

\* get_loaded_drivers giving the kernel image at the header's module-list address.
PageDumpParser_get_loaded_drivers_from_header(header) ==
    <<DriverInfo("ntoskrnl.exe", header.ps_loaded_module_list, 1280)>>

PageDumpParser_get_loaded_drivers(header) == <<>>

PageDumpParser_get_stack_traces(header) == <<>>

\* ctx_size, the size of the x64 CONTEXT structure (0x4F0)
ctx_size == 1264

\* reg_offsets, in the order of the dict
reg_offsets ==
    << [name |-> "Rax", offset |-> 120], [name |-> "Rcx", offset |-> 128],
       [name |-> "Rdx", offset |-> 136], [name |-> "Rbx", offset |-> 144],
       [name |-> "Rsp", offset |-> 152], [name |-> "Rbp", offset |-> 160],
       [name |-> "Rsi", offset |-> 168], [name |-> "Rdi", offset |-> 176],
       [name |-> "Rip", offset |-> 184], [name |-> "R8", offset |-> 192],
       [name |-> "R9", offset |-> 200], [name |-> "R10", offset |-> 208],
       [name |-> "R11", offset |-> 216], [name |-> "R12", offset |-> 224],
       [name |-> "R13", offset |-> 232], [name |-> "R14", offset |-> 240],
       [name |-> "R15", offset |-> 248] >>

\* b"PAGEPAGEPAGEPA", the literal get_context_registers compares with
PAGE_FILLER == <<80, 65, 71, 69, 80, 65, 71, 69, 80, 65, 71, 69, 80, 65>>

\* {}
NoRegisters == [name \in {} |-> <<>>]

\* The registers of reg_offsets up to position n, each with the eight bytes
\* struct.unpack("<Q") turns into its value (least significant first).
RegistersRead(data, offset, n) ==
    [name \in {reg_offsets[i].name : i \in 1..n} |->
        read_bytes(data,
                   offset + reg_offsets[CHOOSE i \in 1..n : reg_offsets[i].name = name].offset,
                   8)]

\* The number of registers the loop reads before a read comes up short (which
\* raises struct.error and ends the loop with the registers read so far).
ReadableRegisters(data, offset) ==
    Cardinality({i \in 1..Len(reg_offsets) :
                    \A j \in 1..i :
                        Len(read_bytes(data, offset + reg_offsets[j].offset, 8)) = 8})

\* _parse_context_x64 without the test of the file size.
PageDumpParser_parse_context_x64_any_size(data, offset) ==
    RegistersRead(data, offset, ReadableRegisters(data, offset))

PageDumpParser_parse_context_x64(data, offset) ==
    IF Len(data) < offset + ctx_size THEN NoRegisters
    ELSE RegistersRead(data, offset, ReadableRegisters(data, offset))

\* get_context_registers: any exception is caught and leaves registers = {}
PageDumpParser_get_context_registers(data) ==
    LET ctx_data == read_bytes(data, OFFSET_CONTEXT_RECORD, 16)
    IN  IF ctx_data = PAGE_FILLER THEN NoRegisters
        ELSE PageDumpParser_parse_context_x64(data, OFFSET_CONTEXT_RECORD)

-----------------------------------------------------------------------------
(* core/analyzer.py: the attribution engine.  A driver is handed around as *)
(* its index in the driver list (the code hands around the list's own      *)
(* object); 0 is None.                                                     *)

\* The range test with the end of the range included.
InModule_inclusive(module, address) ==
    module.base_address <= address /\ address <= module.base_address + module.size

\* driver.base_address <= address < driver.base_address + driver.size
InModule(module, address) ==
    module.base_address <= address /\ address < module.base_address + module.size

\* _find_driver_by_address that keeps looking and returns the last match.
find_driver_by_address_last(driver_list, address) ==
    IF \E i \in 1..Len(driver_list) : InModule(driver_list[i], address)
    THEN CHOOSE i \in 1..Len(driver_list) :
            /\ InModule(driver_list[i], address)
            /\ \A j \in (i + 1)..Len(driver_list) : ~InModule(driver_list[j], address)
    ELSE 0

find_driver_by_address(driver_list, address) ==
    IF \E i \in 1..Len(driver_list) : InModule(driver_list[i], address)
    THEN CHOOSE i \in 1..Len(driver_list) :
            /\ InModule(driver_list[i], address)
            /\ \A j \in 1..(i - 1) : ~InModule(driver_list[j], address)
    ELSE 0

\* Strategy 1: the traces whose top frame resolves to a driver that is not a
\* system driver
StackCandidates(driver_list, traces) ==
    {t \in 1..Len(traces) :
        /\ Len(traces[t].frames) > 0
        /\ LET d == find_driver_by_address(driver_list, traces[t].frames[1].instruction_address)
           IN  d # 0 /\ ~is_system_driver(driver_list[d].name)}

\* Strategy 2: the drivers the table knows
KnownBadCandidates(table, driver_list) ==
    {i \in 1..Len(driver_list) : is_problematic(table, driver_list[i])}

Least(S) == CHOOSE x \in S : \A y \in S : x <= y

\* The frames of a trace that resolve to a driver that is not a system driver.
FrameCandidates(driver_list, trace) ==
    {k \in 1..Len(trace.frames) :
        LET d == find_driver_by_address(driver_list, trace.frames[k].instruction_address)
        IN  d # 0 /\ ~is_system_driver(driver_list[d].name)}

\* _find_suspected_driver looking at every frame of a trace, not the top one.
find_suspected_driver_any_frame(table, info, driver_list, traces) ==
    LET hits == {t \in 1..Len(traces) : FrameCandidates(driver_list, traces[t]) # {}}
    IN  IF hits # {}
        THEN find_driver_by_address(
                 driver_list,
                 traces[Least(hits)].frames[
                     Least(FrameCandidates(driver_list, traces[Least(hits)]))].instruction_address)
        ELSE IF KnownBadCandidates(table, driver_list) # {}
        THEN Least(KnownBadCandidates(table, driver_list))
        ELSE find_driver_by_address(driver_list, info.crash_address)

\* _find_suspected_driver with the known-bad scan ahead of the stack frames.
find_suspected_driver_known_bad_first(table, info, driver_list, traces) ==
    IF KnownBadCandidates(table, driver_list) # {}
    THEN Least(KnownBadCandidates(table, driver_list))
    ELSE IF StackCandidates(driver_list, traces) # {}
    THEN find_driver_by_address(
             driver_list,
             traces[Least(StackCandidates(driver_list, traces))].frames[1].instruction_address)
    ELSE find_driver_by_address(driver_list, info.crash_address)

\* _find_suspected_driver falling back on the first driver of the list.
find_suspected_driver_defaults_to_first(table, info, driver_list, traces) ==
    IF StackCandidates(driver_list, traces) # {}
    THEN find_driver_by_address(
             driver_list,
             traces[Least(StackCandidates(driver_list, traces))].frames[1].instruction_address)
    ELSE IF KnownBadCandidates(table, driver_list) # {}
    THEN Least(KnownBadCandidates(table, driver_list))
    ELSE IF find_driver_by_address(driver_list, info.crash_address) # 0
    THEN find_driver_by_address(driver_list, info.crash_address)
    ELSE IF driver_list # <<>> THEN 1 ELSE 0

find_suspected_driver(table, info, driver_list, traces) ==
    IF StackCandidates(driver_list, traces) # {}
    THEN find_driver_by_address(
             driver_list,
             traces[Least(StackCandidates(driver_list, traces))].frames[1].instruction_address)
    ELSE IF KnownBadCandidates(table, driver_list) # {}
    THEN Least(KnownBadCandidates(table, driver_list))
    ELSE find_driver_by_address(driver_list, info.crash_address)

\* _determine_cause joining all the common causes.
determine_cause_all_causes(table, info, driver_list, suspect) ==
    LET common_causes == get_common_causes(info.bugcheck_code)
        base_cause ==
            IF Len(common_causes) > 0
            THEN <<get_description(info.bugcheck_code), " Common causes: ">>
                     \o Join(common_causes, ", ")
            ELSE <<get_description(info.bugcheck_code)>>
    IN  IF suspect # 0
        THEN IF is_problematic(table, driver_list[suspect])
             THEN LET known_issue == get_known_issue(table, driver_list[suspect])
                  IN  base_cause \o <<" Known issue: ">>
                          \o (IF known_issue.present THEN known_issue.text ELSE <<"None">>)
             ELSE base_cause \o <<" Suspected driver: ", driver_list[suspect].name>>
        ELSE base_cause

\* _determine_cause without the known-issue branch.
determine_cause_names_driver(table, info, driver_list, suspect) ==
    LET common_causes == get_common_causes(info.bugcheck_code)
        base_cause ==
            IF Len(common_causes) > 0
            THEN <<get_description(info.bugcheck_code), " Common causes: ">>
                     \o Join(Take(common_causes, 3), ", ")
            ELSE <<get_description(info.bugcheck_code)>>
    IN  IF suspect # 0
        THEN base_cause \o <<" Suspected driver: ", driver_list[suspect].name>>
        ELSE base_cause

determine_cause(table, info, driver_list, suspect) ==
    LET common_causes == get_common_causes(info.bugcheck_code)
        base_cause ==
            IF Len(common_causes) > 0
            THEN <<get_description(info.bugcheck_code), " Common causes: ">>
                     \o Join(Take(common_causes, 3), ", ")
            ELSE <<get_description(info.bugcheck_code)>>
    IN  IF suspect # 0
        THEN IF is_problematic(table, driver_list[suspect])
             THEN LET known_issue == get_known_issue(table, driver_list[suspect])
                  IN  base_cause \o <<" Known issue: ">>
                          \o (IF known_issue.present THEN known_issue.text ELSE <<"None">>)
             ELSE base_cause \o <<" Suspected driver: ", driver_list[suspect].name>>
        ELSE base_cause

\* _generate_recommendations adding the update advice for every suspected
\* driver, known-bad or not.
recommendations_built_always_update(kb_recommendations, table, driver_list, suspect) ==
    kb_recommendations
    \o (IF suspect = 0 THEN <<>>
        ELSE (IF is_problematic(table, driver_list[suspect])
              THEN LET rec == get_recommendation(table, driver_list[suspect])
                   IN  IF rec.present /\ rec.text # <<"">>
                       THEN <<<<"Driver-specific: ">> \o rec.text>>
                       ELSE <<>>
              ELSE <<>>)
             \o <<<<"Update '", driver_list[suspect].name, "' to the latest version">>>>)
    \o (IF suspect = 0 THEN <<>>
        ELSE LET driver_type == classify_driver(driver_list[suspect])
             IN  IF driver_type = "graphics" THEN <<GraphicsHint>>
                 ELSE IF driver_type = "network" THEN <<NetworkHint>>
                 ELSE <<>>)

\* The list _generate_recommendations has built when it reaches its return.
recommendations_built(kb_recommendations, table, driver_list, suspect) ==
    kb_recommendations
    \o (IF suspect = 0 THEN <<>>
        ELSE IF is_problematic(table, driver_list[suspect])
        THEN LET rec == get_recommendation(table, driver_list[suspect])
             IN  IF rec.present /\ rec.text # <<"">>
                 THEN <<<<"Driver-specific: ">> \o rec.text>>
                 ELSE <<>>
        ELSE <<<<"Update '", driver_list[suspect].name, "' to the latest version">>>>)
    \o (IF suspect = 0 THEN <<>>
        ELSE LET driver_type == classify_driver(driver_list[suspect])
             IN  IF driver_type = "graphics" THEN <<GraphicsHint>>
                 ELSE IF driver_type = "network" THEN <<NetworkHint>>
                 ELSE <<>>)

\* return recommendations, as built
remove_duplicates_keeps_all(built) == {built}

\* return list(set(recommendations)): every order the set may give
remove_duplicates(built) == ListOfSet(Range(built))

generate_recommendations(kb_recommendations, table, driver_list, suspect) ==
    remove_duplicates(recommendations_built(kb_recommendations, table, driver_list, suspect))

common_codes == {10, 59, 209, 80, 126, 30}

\* The score without the final min(confidence, 1.0).
confidence_score_unclamped(has_stack, has_driver, known_bad_driver, common_code) ==
    50 + (IF has_stack THEN 15 ELSE 0)
       + (IF has_driver THEN 15 ELSE 0)
       + (IF has_driver /\ known_bad_driver THEN 25 ELSE 0)
       + (IF common_code THEN 10 ELSE 0)

\* The score with the known-bad boost given in place of the driver boost.
confidence_score_known_bad_only(has_stack, has_driver, known_bad_driver, common_code) ==
    Min(50 + (IF has_stack THEN 15 ELSE 0)
           + (IF has_driver /\ known_bad_driver THEN 25
              ELSE IF has_driver THEN 15 ELSE 0)
           + (IF common_code THEN 10 ELSE 0),
        100)

\* The score from the four factors the code tests, in hundredths.
confidence_score(has_stack, has_driver, known_bad_driver, common_code) ==
    Min(50 + (IF has_stack THEN 15 ELSE 0)
           + (IF has_driver THEN 15 ELSE 0)
           + (IF has_driver /\ known_bad_driver THEN 25 ELSE 0)
           + (IF common_code THEN 10 ELSE 0),
        100)

calculate_confidence(table, info, driver_list, suspect, traces) ==
    confidence_score(Len(traces) > 0 /\ Len(traces[1].frames) > 0,
                     suspect # 0,
                     suspect # 0 /\ is_problematic(table, driver_list[suspect]),
                     info.bugcheck_code \in common_codes)

NoResult ==
    [dump_file |-> 0, minidump_info |-> NoInfo, crash_info |-> NoCrashInfo,
     loaded_drivers |-> <<>>, stack_traces |-> <<>>, suspected_cause |-> <<>>,
     suspected_driver |-> 0, recommendations |-> <<>>, confidence |-> 0,
     ai_analysis |-> NoText]

-----------------------------------------------------------------------------
(* Constructors.                                                           *)

MinidumpParser_init(path, f) ==
    LET v == MinidumpParser_validate_file(f)
        l == MinidumpParser_load_minidump(f)
    IN  IF v.error # NoError
        THEN [log |-> v.log, error |-> v.error, dump_type |-> v.dump_type,
              parser |-> NoParser]
        ELSE IF l.error # NoError
        THEN [log |-> v.log \o l.log, error |-> l.error, dump_type |-> v.dump_type,
              parser |-> NoParser]
        ELSE [log |-> v.log \o l.log, error |-> NoError, dump_type |-> v.dump_type,
              parser |-> [kind |-> "MinidumpParser", file_path |-> path,
                          dump_type |-> v.dump_type, minidump |-> l.minidump,
                          header |-> NoHeader]]

PageDumpParser_init(path, f) ==
    LET v == PageDumpParser_validate_file(f)
        h == PageDumpParser_parse_header(f.data)
    IN  IF v.error # NoError
        THEN [log |-> v.log, error |-> v.error, parser |-> NoParser]
        ELSE IF h.error # NoError
        THEN [log |-> v.log \o h.log, error |-> h.error, parser |-> NoParser]
        ELSE [log |-> v.log \o h.log, error |-> NoError,
              parser |-> [kind |-> "PageDumpParser", file_path |-> path,
                          dump_type |-> "None", minidump |-> NoDump,
                          header |-> h.header]]

NoCustomDb == [present |-> FALSE, entries |-> <<>>]

\* dict.update: a key the table has keeps its place and takes the new value, a
\* new key goes to the end
RECURSIVE DictUpdate(_, _)
DictUpdate(table, entries) ==
    IF entries = <<>> THEN table
    ELSE LET e == Head(entries)
             at == {i \in 1..Len(table) : table[i].key = e.key}
         IN  DictUpdate(IF at = {} THEN Append(table, e)
                        ELSE [i \in 1..Len(table) |-> IF i \in at THEN e ELSE table[i]],
                        Tail(entries))

\* DriverDetector.__init__: self._known_bad is the module's table itself
DriverDetector_init(table, db) ==
    IF db.present THEN DictUpdate(table, db.entries) ELSE table

\* The writes DriverDetector.__init__ makes to the module's table: one
\* self._known_bad.update(custom_data) when the custom database is there
DriverDetector_writes(db) ==
    IF db.present THEN <<"known_bad.update">> ELSE <<>>

-----------------------------------------------------------------------------
(* The run.                                                                *)

\* The path the parser is built for: the file of the loop, or, for
\* analyze_multiple, the file the caller built the analyzer's parser for.
TargetPath == IF idx = 0 THEN 1 ELSE dump_files[idx]
TargetFile == files[TargetPath]

analysis_vars == <<minidump_info, crash_info, drivers, stack_traces, suspected_driver,
                   suspected_cause, recommendations, confidence>>
input_vars == <<files, dump_files, mode, entry, save, custom_db>>

CreateParser ==
    /\ pc = "create_parser"
    /\ LET r == create_parser(TargetFile)
       IN  /\ log' = log \o r.log
           /\ detected' = IF r.error = NoError THEN r.next ELSE "None"
           /\ error' = r.error
           /\ pc' = r.next
    /\ UNCHANGED <<input_vars, registers, idx, parser, known_bad, analysis_vars, results, reported>>

MinidumpParserInit ==
    /\ pc = "MinidumpParser"
    /\ LET r == MinidumpParser_init(TargetPath, TargetFile)
       IN  /\ log' = log \o r.log
           /\ detected' = r.dump_type
           /\ error' = r.error
           /\ parser' = IF r.error = NoError THEN r.parser ELSE parser
           /\ pc' = IF r.error = NoError THEN "BSODAnalyzer" ELSE "raised"
    /\ UNCHANGED <<input_vars, registers, idx, known_bad, analysis_vars, results, reported>>

PageDumpParserInit ==
    /\ pc = "PageDumpParser"
    /\ LET r == PageDumpParser_init(TargetPath, TargetFile)
       IN  /\ log' = log \o r.log
           /\ detected' = detected
           /\ error' = r.error
           /\ parser' = IF r.error = NoError THEN r.parser ELSE parser
           /\ pc' = IF r.error # NoError THEN "raised"
                    ELSE IF mode = "test_parse_file" THEN "get_context_registers"
                    ELSE "BSODAnalyzer"
    /\ UNCHANGED <<input_vars, registers, idx, known_bad, analysis_vars, results, reported>>

\* kb = BugcheckKnowledgeBase(); driver_detector = DriverDetector();
\* BSODAnalyzer(parser, kb, driver_detector); then analyze, or analyze_multiple
NewAnalyzer ==
    /\ pc = "BSODAnalyzer"
    /\ known_bad' = DriverDetector_init(known_bad, custom_db)
    /\ log' = log \o DriverDetector_writes(custom_db)
    /\ pc' = IF mode = "multiple" THEN "next" ELSE "parse"
    /\ UNCHANGED <<input_vars, registers, idx, detected, parser, error, analysis_vars, results, reported>>

\* analyze(), step 1
Parse(kind, r) ==
    /\ pc = "parse"
    /\ parser.kind = kind
    /\ error' = r.error
    /\ minidump_info' = IF r.error = NoError THEN r.info ELSE minidump_info
    /\ pc' = IF r.error = NoError THEN "extract_crash_info" ELSE "raised"
    /\ UNCHANGED <<input_vars, registers, idx, log, detected, parser, known_bad, crash_info, drivers,
                   stack_traces, suspected_driver, suspected_cause, recommendations,
                   confidence, results, reported>>

MinidumpParse ==
    Parse("MinidumpParser", MinidumpParser_parse(parser, files[parser.file_path]))

PageDumpParse ==
    Parse("PageDumpParser", PageDumpParser_parse(parser, files[parser.file_path]))

\* analyze(), step 2
ExtractCrashInfo(kind, info) ==
    /\ pc = "extract_crash_info"
    /\ parser.kind = kind
    /\ crash_info' = info
    /\ pc' = "get_loaded_drivers"
    /\ UNCHANGED <<input_vars, registers, idx, log, detected, parser, known_bad, error, minidump_info, drivers,
                   stack_traces, suspected_driver, suspected_cause, recommendations,
                   confidence, results, reported>>

MinidumpExtractCrashInfo ==
    ExtractCrashInfo("MinidumpParser", MinidumpParser_extract_crash_info(parser.minidump))

PageDumpExtractCrashInfo ==
    ExtractCrashInfo("PageDumpParser", PageDumpParser_extract_crash_info(parser.header))

\* analyze(), step 3
GetLoadedDrivers(kind, list) ==
    /\ pc = "get_loaded_drivers"
    /\ parser.kind = kind
    /\ drivers' = list
    /\ pc' = "get_stack_traces"
    /\ UNCHANGED <<input_vars, registers, idx, log, detected, parser, known_bad, error, minidump_info,
                   crash_info, stack_traces, suspected_driver, suspected_cause,
                   recommendations, confidence, results, reported>>

MinidumpGetLoadedDrivers ==
    GetLoadedDrivers("MinidumpParser", MinidumpParser_get_loaded_drivers(parser.minidump))

PageDumpGetLoadedDrivers ==
    GetLoadedDrivers("PageDumpParser", PageDumpParser_get_loaded_drivers(parser.header))

\* analyze(), step 4
GetStackTraces(kind, traces) ==
    /\ pc = "get_stack_traces"
    /\ parser.kind = kind
    /\ stack_traces' = traces
    /\ pc' = "find_suspected_driver"
    /\ UNCHANGED <<input_vars, registers, idx, log, detected, parser, known_bad, error, minidump_info,
                   crash_info, drivers, suspected_driver, suspected_cause,
                   recommendations, confidence, results, reported>>

MinidumpGetStackTraces ==
    GetStackTraces("MinidumpParser", MinidumpParser_get_stack_traces(parser.minidump))

PageDumpGetStackTraces ==
    GetStackTraces("PageDumpParser", PageDumpParser_get_stack_traces(parser.header))

\* test_parse_file: registers = parser.get_context_registers()
GetContextRegisters ==
    /\ pc = "get_context_registers"
    /\ parser.kind = "PageDumpParser"
    /\ registers' = PageDumpParser_get_context_registers(files[parser.file_path].data)
    /\ log' = log \o <<"read">>
    /\ pc' = "done"
    /\ UNCHANGED <<input_vars, idx, detected, parser, known_bad, error, analysis_vars,
                   results, reported>>

\* analyze(), step 5
FindSuspectedDriver ==
    /\ pc = "find_suspected_driver"
    /\ suspected_driver' = find_suspected_driver(known_bad, crash_info, drivers, stack_traces)
    /\ pc' = "determine_cause"
    /\ UNCHANGED <<input_vars, registers, idx, log, detected, parser, known_bad, error, minidump_info,
                   crash_info, drivers, stack_traces, suspected_cause, recommendations,
                   confidence, results, reported>>

\* analyze(), step 6
DetermineCause ==
    /\ pc = "determine_cause"
    /\ suspected_cause' = determine_cause(known_bad, crash_info, drivers, suspected_driver)
    /\ pc' = "generate_recommendations"
    /\ UNCHANGED <<input_vars, registers, idx, log, detected, parser, known_bad, error, minidump_info,
                   crash_info, drivers, stack_traces, suspected_driver, recommendations,
                   confidence, results, reported>>

\* analyze(), step 7
GenerateRecommendations ==
    /\ pc = "generate_recommendations"
    /\ recommendations' \in
           generate_recommendations(get_recommendations(crash_info.bugcheck_code),
                                    known_bad, drivers, suspected_driver)
    /\ pc' = "calculate_confidence"
    /\ UNCHANGED <<input_vars, registers, idx, log, detected, parser, known_bad, error, minidump_info,
                   crash_info, drivers, stack_traces, suspected_driver, suspected_cause,
                   confidence, results, reported>>

\* analyze(), step 8
CalculateConfidence ==
    /\ pc = "calculate_confidence"
    /\ confidence' = calculate_confidence(known_bad, crash_info, drivers,
                                          suspected_driver, stack_traces)
    /\ pc' = "result"
    /\ UNCHANGED <<input_vars, registers, idx, log, detected, parser, known_bad, error, minidump_info,
                   crash_info, drivers, stack_traces, suspected_driver, suspected_cause,
                   recommendations, results, reported>>

\* The flag set on every driver of the list the table knows.
flag_every_known_bad(table, driver_list, suspect) ==
    [i \in 1..Len(driver_list) |->
        [driver_list[i] EXCEPT !.is_problematic = is_problematic(table, driver_list[i])]]

\* The flag analyze() sets on the suspected driver, which is an element of the list.
flag_suspected(table, driver_list, suspect) ==
    IF suspect = 0 THEN driver_list
    ELSE [driver_list EXCEPT
              ![suspect].is_problematic = is_problematic(table, driver_list[suspect])]

\* analyze() returns its AnalysisResult and the caller keeps it
AnalyzeReturn ==
    /\ pc = "result"
    /\ drivers' = flag_suspected(known_bad, drivers, suspected_driver)
    /\ results' = Append(results,
                         [dump_file |-> dump_files[idx],
                          minidump_info |-> minidump_info,
                          crash_info |-> crash_info,
                          loaded_drivers |-> drivers',
                          stack_traces |-> stack_traces,
                          suspected_cause |-> suspected_cause,
                          suspected_driver |-> suspected_driver,
                          recommendations |-> recommendations,
                          confidence |-> confidence,
                          ai_analysis |-> NoText])
    /\ pc' = IF mode = "single" THEN "done"
             ELSE IF mode = "batch" /\ save THEN "save"
             ELSE "next"
    /\ UNCHANGED <<input_vars, registers, idx, log, detected, parser, known_bad, error, minidump_info,
                   crash_info, stack_traces, suspected_driver, suspected_cause,
                   recommendations, confidence, reported>>

\* CLI batch, --save: DatabaseManager().save_analysis(result) stores the result
\* or raises (sqlite3)
BatchSave ==
    /\ pc = "save"
    /\ \E stored \in BOOLEAN :
          /\ error' = IF stored THEN NoError
                      ELSE Raise("sqlite3.Error", "unable to save analysis")
          /\ pc' = IF stored THEN "next" ELSE "raised"
    /\ UNCHANGED <<input_vars, registers, idx, log, detected, parser, known_bad, analysis_vars, results,
                   reported>>

\* The loops without their try / except: any failure ends the run.
Except_ends_run ==
    /\ pc = "raised"
    /\ reported' = Append(reported, [file |-> TargetPath, error |-> error])
    /\ error' = NoError
    /\ pc' = "exit"
    /\ UNCHANGED <<input_vars, registers, idx, log, detected, parser, known_bad, analysis_vars, results>>

\* except Exception: inside a batch loop the failure is printed / logged and the
\* loop goes on; anywhere else it ends the run
Except ==
    /\ pc = "raised"
    /\ reported' = Append(reported, [file |-> TargetPath, error |-> error])
    /\ error' = NoError
    /\ pc' = IF mode \in {"batch", "multiple"} /\ idx > 0 THEN "next" ELSE "exit"
    /\ UNCHANGED <<input_vars, registers, idx, log, detected, parser, known_bad, analysis_vars, results>>

\* for dump_file in dump_files: the next iteration, or the end of the loop
NextFile ==
    /\ pc = "next"
    /\ IF idx < Len(dump_files)
       THEN /\ idx' = idx + 1
            /\ pc' = IF mode = "multiple" THEN "parse" ELSE "create_parser"
            /\ parser' = IF mode = "multiple" THEN parser ELSE NoParser
            /\ log' = <<>>
            /\ detected' = "None"
            /\ minidump_info' = NoInfo
            /\ crash_info' = NoCrashInfo
            /\ drivers' = <<>>
            /\ stack_traces' = <<>>
            /\ suspected_driver' = 0
            /\ suspected_cause' = <<>>
            /\ recommendations' = <<>>
            /\ confidence' = 0
       ELSE /\ pc' = "done"
            /\ UNCHANGED <<idx, parser, log, detected, analysis_vars>>
    /\ UNCHANGED <<input_vars, registers, known_bad, error, results, reported>>

-----------------------------------------------------------------------------
(* Inputs.                                                                 *)

MinidumpBytes == MDMP \o <<147, 167, 0, 0>>

\* A kernel dump header: the fields at the offsets PageDumpParser reads.
KernelFile(signature, code, params) ==
    signature \o ToLE(15, 4) \o ToLE(19041, 4) \o ToLE(1744896, 8) \o Zeros(24)
        \o ToLE(IMAGE_FILE_MACHINE_AMD64, 4) \o ToLE(4, 4) \o Zeros(8)
        \o ToLE(code, 4)
        \o ToLE(params[1], 8) \o ToLE(params[2], 8) \o ToLE(params[3], 8) \o ToLE(params[4], 8)

SysInfo == [present |-> TRUE, processor_architecture |-> 9, number_of_processors |-> 4]

\* Module ranges: [0x1000, 0x1500) and [0x1400, 0x1900), which overlap.
ModuleNames == {"nvlddmkm.sys", "ntoskrnl.exe", "myfault.sys"}
ModuleRanges == {<<4096, 1280>>, <<5120, 1280>>}
Modules ==
    {[name |-> n, base_address |-> r[1], size |-> r[2]] : n \in ModuleNames, r \in ModuleRanges}

\* Addresses: 0x1200, 0x1400, 0x1500 (the end of the first range), 0x1900 (the
\* end of the second), 0x0FFF (below both)
Addresses == {4608, 5120, 5376, 6400, 4095}

Walks ==
    {[addrs |-> <<>>, raises |-> TRUE],
     [addrs |-> <<4608>>, raises |-> FALSE],
     [addrs |-> <<5376, 5120>>, raises |-> FALSE]}

ThreadLists ==
    {[i \in 1..Len(ws) |-> [thread_id |-> i, walk |-> ws[i]]] : ws \in SeqsUpTo(Walks, MaxThreads)}

Exceptions ==
    {NoException,
     [present |-> TRUE, raises |-> FALSE, exception_code |-> IRQL_NOT_LESS_OR_EQUAL,
      exception_address |-> 4608, thread_id |-> 1, exception_parameters |-> <<4608, 2, 0, 5120>>],
     [present |-> TRUE, raises |-> FALSE, exception_code |-> BAD_POOL_HEADER,
      exception_address |-> 5120, thread_id |-> 2, exception_parameters |-> <<>>],
     [present |-> TRUE, raises |-> FALSE, exception_code |-> DRIVER_IRQL_NOT_LESS_OR_EQUAL,
      exception_address |-> 6400, thread_id |-> 1, exception_parameters |-> <<6400>>]}

Dumps ==
    {[loads |-> TRUE, sysinfo |-> SysInfo, modules |-> m, threads |-> t, exception |-> e] :
        m \in {NoModules} \cup {[present |-> TRUE, modules |-> ms] : ms \in SeqsUpTo(Modules, MaxModules)},
        t \in {NoThreads} \cup {[present |-> TRUE, threads |-> ts] : ts \in ThreadLists},
        e \in Exceptions}

MissingFile == [exists |-> FALSE, data |-> <<>>, dump |-> NoDump]
File(data, dump) == [exists |-> TRUE, data |-> data, dump |-> dump]

InitRun ==
    /\ custom_db = NoCustomDb
    /\ known_bad = KNOWN_BAD_DRIVERS
    /\ log = <<>>
    /\ detected = "None"
    /\ parser = NoParser
    /\ error = NoError
    /\ minidump_info = NoInfo
    /\ crash_info = NoCrashInfo
    /\ drivers = <<>>
    /\ stack_traces = <<>>
    /\ suspected_driver = 0
    /\ suspected_cause = <<>>
    /\ recommendations = <<>>
    /\ confidence = 0
    /\ results = <<>>
    /\ reported = <<>>
    /\ registers = NoRegisters

\* One minidump, analysed as the CLI's analyze command does.
Init ==
    /\ InitRun
    /\ \E d \in Dumps : files = <<File(MinidumpBytes, d)>>
    /\ dump_files = <<1>>
    /\ mode = "single"
    /\ entry = "create_parser"
    /\ save = FALSE
    /\ idx = 1
    /\ pc = "create_parser"

Next ==
    \/ CreateParser
    \/ MinidumpParserInit
    \/ NewAnalyzer
    \/ MinidumpParse
    \/ MinidumpExtractCrashInfo
    \/ MinidumpGetLoadedDrivers
    \/ MinidumpGetStackTraces
    \/ FindSuspectedDriver
    \/ DetermineCause
    \/ GenerateRecommendations
    \/ CalculateConfidence
    \/ AnalyzeReturn

Spec == Init /\ [][Next]_vars

-----------------------------------------------------------------------------
(* Format detection: one file, handed to create_parser or to one of the    *)
(* two constructors.                                                       *)

\* Eight-byte prefixes: "PAGEDU" followed by two of the digits 4, 6, 8 (among
\* them PAGEDU64 and PAGEDU48), "MDMP" followed by four bytes, and prefixes
\* that are neither ("MDMQ", "mdmp", zeros).
Prefixes ==
    {<<80, 65, 71, 69, 68, 85, x, y>> : x, y \in {52, 54, 56}}
        \cup {MDMP \o t : t \in {<<147, 167, 0, 0>>, <<0, 0, 0, 0>>, <<80, 65, 71, 69>>}}
        \cup {<<77, 68, 77, 81, 147, 167, 0, 0>>, <<109, 100, 109, 112, 147, 167, 0, 0>>,
              Zeros(8)}

\* File contents: the prefixes, cut short or followed by more bytes, and whole
\* kernel dump headers under either kernel signature.
DetectData ==
    {Take(p, k) : p \in Prefixes, k \in {0, 3, 4, 7, 8}}
        \cup {p \o Zeros(4) : p \in Prefixes}
        \cup {KernelFile(sig, IRQL_NOT_LESS_OR_EQUAL, <<1, 2, 3, 4>>) : sig \in {PAGEDU64, PAGEDU48}}

\* What the minidump library makes of the contents: only a file that starts
\* with its magic and goes on can load.
SmallDump ==
    [loads |-> TRUE, sysinfo |-> SysInfo, modules |-> NoModules, threads |-> NoThreads,
     exception |-> NoException]

DetectFiles ==
    {MissingFile}
        \cup {File(d, NoDump) : d \in DetectData}
        \cup {File(d, SmallDump) : d \in {x \in DetectData : Len(x) >= 8 /\ Take(x, 4) = MDMP}}

InitDetect ==
    /\ InitRun
    /\ \E f \in DetectFiles : files = <<f>>
    /\ dump_files = <<1>>
    /\ mode = "single"
    /\ entry \in {"create_parser", "MinidumpParser", "PageDumpParser"}
    /\ save = FALSE
    /\ idx = 1
    /\ pc = entry

NextDetect ==
    \/ CreateParser
    \/ MinidumpParserInit
    \/ PageDumpParserInit
    \/ Except

SpecDetect == InitDetect /\ [][NextDetect]_vars

\* The first 8 bytes of the file (fewer if the file is shorter).
Signature == Take(files[1].data, 8)
Readable == files[1].exists /\ Len(files[1].data) > 0

\* The state create_parser leaves, before the constructor it calls runs.
AfterCreateParser ==
    /\ entry = "create_parser"
    /\ pc \in {"MinidumpParser", "PageDumpParser", "raised"}
    /\ Len(log) <= 4

\* The state MinidumpParser(file_path) leaves.
AfterMinidumpParser == entry = "MinidumpParser" /\ pc \in {"BSODAnalyzer", "raised"}

\* A signature error in flight whose message carries the bytes that were read.
SignatureError(msg) ==
    /\ pc = "raised"
    /\ error.type = "ValueError"
    /\ error.msg = msg
    /\ FromHex(error.hex) = Signature

\* The format variant the detection step left, in the words of the claim.
Variant ==
    IF pc = "raised" /\ error.type = "ValueError"
           /\ error.msg \in {"Unsupported dump file signature", "Invalid dump file signature"}
    THEN "InvalidSignature"
    ELSE IF detected \in {"MinidumpParser", "minidump"} THEN "StructuredMinidump"
    ELSE IF detected \in {"PageDumpParser", "kernel_x64"} THEN "KernelDump64"
    ELSE IF detected = "kernel_x86" THEN "KernelDump32"
    ELSE "None"

\* C1 as stated: for an existing non-empty file both detectors classify by the
\* first 8 bytes: "MDMP" in the first 4 gives the structured minidump,
\* "PAGEDU64" the 64-bit kernel dump, "PAGEDU48" the 32-bit kernel dump, and
\* every other prefix fails with a signature error carrying the bytes.
C1_AsStated ==
    ((AfterCreateParser \/ AfterMinidumpParser) /\ Readable) =>
        IF Take(Signature, 4) = MDMP THEN Variant = "StructuredMinidump"
        ELSE IF Signature = PAGEDU64 THEN Variant = "KernelDump64"
        ELSE IF Signature = PAGEDU48 THEN Variant = "KernelDump32"
        ELSE Variant = "InvalidSignature" /\ FromHex(error.hex) = Signature

\* C1, amended: for an existing non-empty file, create_parser hands a file that
\* starts "PAGEDU64" to PageDumpParser and one that starts "MDMP" to
\* MinidumpParser, and fails on every other prefix, "PAGEDU48" included, with
\* an unsupported-signature error carrying the bytes it read;
\* MinidumpParser._validate_file classifies "MDMP" as minidump, "PAGEDU64" as
\* kernel_x64, "PAGEDU48" as kernel_x86 and fails on every other prefix with an
\* invalid-signature error carrying the bytes.
C1_Detection ==
    /\ (AfterCreateParser /\ Readable) =>
           IF Signature = PAGEDU64
           THEN pc = "PageDumpParser" /\ detected = "PageDumpParser" /\ error = NoError
           ELSE IF Take(Signature, 4) = MDMP
           THEN pc = "MinidumpParser" /\ detected = "MinidumpParser" /\ error = NoError
           ELSE detected = "None" /\ SignatureError("Unsupported dump file signature")
    /\ (AfterMinidumpParser /\ Readable) =>
           IF Take(Signature, 4) = MDMP
           THEN detected = "minidump" /\ error.type \in {"None", "RuntimeError"}
           ELSE IF Signature = PAGEDU64
           THEN detected = "kernel_x64" /\ error.type \in {"None", "RuntimeError"}
           ELSE IF Signature = PAGEDU48
           THEN detected = "kernel_x86" /\ error.type \in {"None", "RuntimeError"}
           ELSE detected = "None" /\ SignatureError("Invalid dump file signature")

\* create_parser has refused a file that starts "PAGEDU48".
C1_Witness ==
    /\ AfterCreateParser
    /\ Readable
    /\ Signature = PAGEDU48
    /\ SignatureError("Unsupported dump file signature")

\* The failure of the run's file: in flight, or already reported.
LastError ==
    IF pc = "raised" THEN error
    ELSE IF reported # <<>> THEN reported[Len(reported)].error
    ELSE NoError

\* C2: through create_parser, MinidumpParser and PageDumpParser alike, a path
\* that does not exist fails with FileNotFoundError after the existence check
\* alone, and an existing file of size 0 fails with the empty-file ValueError
\* after the existence check and the size check, in that order; in both cases
\* nothing was read and no decode step (signature comparison, header parse,
\* library load) had started.
C2_FailsBeforeReading ==
    /\ (pc # entry /\ ~files[1].exists) =>
           /\ pc \in {"raised", "exit"}
           /\ LastError = Raise("FileNotFoundError", "Dump file not found")
           /\ log = <<"exists">>
    /\ (pc # entry /\ files[1].exists /\ Len(files[1].data) = 0) =>
           /\ pc \in {"raised", "exit"}
           /\ LastError = Raise("ValueError", "Empty dump file")
           /\ log = <<"exists", "stat">>

\* PageDumpParser has refused an empty file and the failure has been reported.
C2_Witness ==
    /\ entry = "PageDumpParser"
    /\ pc = "exit"
    /\ files[1].exists
    /\ Len(files[1].data) = 0
    /\ LastError.msg = "Empty dump file"

-----------------------------------------------------------------------------
(* Attribution: the claims checked on the analysis of one minidump (Spec). *)

\* The steps of analyze() at which the driver list has been read.
DriversLoaded ==
    pc \in {"get_stack_traces", "find_suspected_driver", "determine_cause",
            "generate_recommendations", "calculate_confidence", "result", "done"}

\* The steps of analyze() at which the suspected driver has been chosen.
SuspectChosen ==
    pc \in {"determine_cause", "generate_recommendations", "calculate_confidence",
            "result", "done"}

\* The addresses looked up: the inputs' addresses and the crash address.
LookedUp == Addresses \cup {crash_info.crash_address}

\* C3 as stated: for every module m of the list (overlapping and duplicate
\* ranges included) and every address a with m.base <= a < m.base + m.size,
\* the lookup of a returns m.
C3_AsStated ==
    DriversLoaded =>
        \A i \in 1..Len(drivers) : \A a \in LookedUp :
            InModule(drivers[i], a) =>
                /\ find_driver_by_address(drivers, a) # 0
                /\ drivers[find_driver_by_address(drivers, a)] = drivers[i]

\* C3, amended: for every module m of the list and every address a inside m,
\* the lookup of a returns the first module in list order that contains a: it
\* returns m itself when no earlier module of the list contains a, and
\* otherwise that earlier module.
C3_FirstContaining ==
    DriversLoaded =>
        \A i \in 1..Len(drivers) : \A a \in LookedUp :
            (drivers[i].base_address <= a /\ a < drivers[i].base_address + drivers[i].size) =>
                LET found == find_driver_by_address(drivers, a)
                IN  /\ found \in 1..i
                    /\ drivers[found].base_address <= a
                    /\ a < drivers[found].base_address + drivers[found].size
                    /\ \A j \in 1..(found - 1) :
                           ~(drivers[j].base_address <= a
                                /\ a < drivers[j].base_address + drivers[j].size)

\* Two different modules overlap at the crash address, and the crash-address
\* lookup has selected the first of them.
C3_Witness ==
    /\ pc = "determine_cause"
    /\ Len(drivers) = 2
    /\ drivers[1].name # drivers[2].name
    /\ InModule(drivers[1], crash_info.crash_address)
    /\ InModule(drivers[2], crash_info.crash_address)
    /\ stack_traces = <<>>
    /\ suspected_driver = 1

\* C4: an address equal to m.base + m.size is never resolved to m, by the
\* attribution lookup or by the stack-frame resolver: the lookup gives a module
\* that really contains the address, or none, and a frame carries the name of
\* a module that contains its address, or "Unknown"; with no module around the
\* address the results are none and "Unknown", and an empty list resolves every
\* address to none.
C4_ExclusiveUpperBound ==
    DriversLoaded =>
        /\ \A i \in 1..Len(drivers) :
              LET a == drivers[i].base_address + drivers[i].size
                  others == {j \in 1..Len(drivers) :
                                drivers[j].base_address <= a
                                    /\ a < drivers[j].base_address + drivers[j].size}
                  found == find_driver_by_address(drivers, a)
                  name == MinidumpParser_find_module_for_address(parser.minidump, a)
              IN  /\ found # i
                  /\ found \in others \cup {0}
                  /\ name \in {drivers[j].name : j \in others} \cup {"Unknown"}
                  /\ others = {} => (found = 0 /\ name = "Unknown")
        /\ \A t \in 1..Len(stack_traces) : \A k \in 1..Len(stack_traces[t].frames) :
              LET frame == stack_traces[t].frames[k]
              IN  frame.module_name \in
                      {drivers[j].name : j \in {x \in 1..Len(drivers) :
                           /\ drivers[x].base_address <= frame.instruction_address
                           /\ frame.instruction_address
                                  < drivers[x].base_address + drivers[x].size}}
                          \cup {"Unknown"}
        /\ drivers = <<>> =>
              \A a \in LookedUp :
                  /\ find_driver_by_address(drivers, a) = 0
                  /\ MinidumpParser_find_module_for_address(parser.minidump, a) = "Unknown"

\* The only module ends exactly at the address of the first frame and of the
\* crash: the frame is "Unknown" and no driver is suspected.
C4_Witness ==
    /\ pc = "result"
    /\ Len(drivers) = 1
    /\ drivers[1].name = "myfault.sys"
    /\ drivers[1].base_address + drivers[1].size = 5376
    /\ Len(stack_traces) = 1
    /\ stack_traces[1].frames[1].instruction_address = 5376
    /\ stack_traces[1].frames[1].module_name = "Unknown"
    /\ suspected_driver = 0

\* The driver the first frame of trace t resolves to: the first driver of the
\* list whose range holds the frame's address (0: none).
TopFrameDriver(t) ==
    LET a == stack_traces[t].frames[1].instruction_address
        holding == {i \in 1..Len(drivers) :
                       drivers[i].base_address <= a
                           /\ a < drivers[i].base_address + drivers[i].size}
    IN  IF holding = {} THEN 0 ELSE CHOOSE i \in holding : \A j \in holding : i <= j

\* The traces whose first frame resolves to a driver outside the system list.
NonSystemTraces ==
    {t \in 1..Len(stack_traces) :
        /\ TopFrameDriver(t) # 0
        /\ \A k \in 1..Len(system_drivers) :
               lower[drivers[TopFrameDriver(t)].name] # lower[system_drivers[k]]}

\* C5: whenever some trace's first frame resolves to a module that is not a
\* system driver, the suspected driver is the module so resolved for the
\* earliest such trace in input order, whether or not a known-bad module is in
\* the list (before or after it) and whichever module holds the crash address.
C5_StackFrameFirst ==
    (SuspectChosen /\ NonSystemTraces # {}) =>
        \E t \in NonSystemTraces :
            /\ \A u \in NonSystemTraces : t <= u
            /\ suspected_driver = TopFrameDriver(t)

\* A known-bad module stands first in the list and holds the crash address,
\* and the first frame resolves to another module, which got selected.
C5_Witness ==
    /\ pc = "determine_cause"
    /\ Len(drivers) = 2
    /\ drivers[1].name = "nvlddmkm.sys"
    /\ drivers[2].name = "myfault.sys"
    /\ InModule(drivers[1], crash_info.crash_address)
    /\ ~InModule(drivers[2], crash_info.crash_address)
    /\ NonSystemTraces # {}
    /\ suspected_driver = 2

\* The score _calculate_confidence gives with one factor taken away and the
\* other arguments as they are.
WithoutStack == calculate_confidence(known_bad, crash_info, drivers, suspected_driver, <<>>)
WithoutDriver == calculate_confidence(known_bad, crash_info, drivers, 0, stack_traces)
WithoutKnownBad == calculate_confidence(<<>>, crash_info, drivers, suspected_driver, stack_traces)

SuspectIsKnownBad ==
    suspected_driver # 0 /\ MatchingKeys(known_bad, drivers[suspected_driver].name) # {}

\* C6 as stated: with the other factors fixed, a resolvable stack frame, a
\* suspected driver and a known-bad match each raise the score, for every
\* combination of the other factors, and the score stays within [0.5, 1.0].
C6_AsStated ==
    pc = "result" =>
        /\ stack_traces # <<>> => confidence > WithoutStack
        /\ suspected_driver # 0 => confidence > WithoutDriver
        /\ SuspectIsKnownBad => confidence > WithoutKnownBad
        /\ 50 <= confidence /\ confidence <= 100

\* C6, amended: with the other factors fixed, a suspected driver and a
\* known-bad match each raise the score and a resolvable stack frame never
\* lowers it: the frame raises the score except when the suspected driver is
\* known-bad and the bugcheck code is a common one, where the score is 1.0
\* with and without the frame; the score stays within [0.5, 1.0].
C6_Monotonic ==
    pc = "result" =>
        /\ stack_traces # <<>> =>
              IF SuspectIsKnownBad /\ crash_info.bugcheck_code \in {10, 59, 209, 80, 126, 30}
              THEN confidence = 100 /\ WithoutStack = 100
              ELSE confidence > WithoutStack
        /\ suspected_driver # 0 => confidence > WithoutDriver
        /\ SuspectIsKnownBad => confidence > WithoutKnownBad
        /\ 50 <= confidence /\ confidence <= 100

\* A known-bad suspect, a common code and a stack frame: the score is 1.0 and
\* would be 1.0 without the frame.
C6_Witness ==
    /\ pc = "result"
    /\ stack_traces # <<>>
    /\ SuspectIsKnownBad
    /\ crash_info.bugcheck_code = IRQL_NOT_LESS_OR_EQUAL
    /\ confidence = 100
    /\ WithoutStack = 100

\* The list _generate_recommendations had built before it removed duplicates.
BuiltRecommendations ==
    recommendations_built(get_recommendations(crash_info.bugcheck_code),
                          known_bad, drivers, suspected_driver)

\* C7: the returned recommendation list holds no two equal entries and holds
\* every entry that was built, whatever the knowledge base's list repeats or
\* already contains, and removing duplicates from it again gives a list of the
\* same entries and the same length (the order of the entries is the set's
\* and is not part of the result).
C7_NoDuplicates ==
    pc \in {"calculate_confidence", "result"} =>
        /\ NoDuplicates(recommendations)
        /\ Range(recommendations) = Range(BuiltRecommendations)
        /\ \A again \in remove_duplicates(recommendations) :
               /\ Len(again) = Len(recommendations)
               /\ Range(again) = Range(recommendations)
               /\ NoDuplicates(again)

\* The knowledge base's list already held the driver-specific entry for the
\* suspected driver, and the result holds it once.
C7_Witness ==
    /\ pc = "calculate_confidence"
    /\ crash_info.bugcheck_code = DRIVER_IRQL_NOT_LESS_OR_EQUAL
    /\ suspected_driver # 0
    /\ drivers[suspected_driver].name = "nvlddmkm.sys"
    /\ Len(recommendations) < Len(BuiltRecommendations)
    /\ \E i \in 1..Len(recommendations) : recommendations[i][1] = "Driver-specific: "

\* Scenario B: the module list is one module 'nvlddmkm.sys' at 0x1000 of size
\* 0x500 and the only thread's first frame is at 0x1200.
ScenarioB ==
    /\ files[1].dump.modules.present
    /\ files[1].dump.modules.modules =
           <<[name |-> "nvlddmkm.sys", base_address |-> 4096, size |-> 1280]>>
    /\ files[1].dump.threads.present
    /\ Len(files[1].dump.threads.threads) = 1
    /\ files[1].dump.threads.threads[1].walk = [addrs |-> <<4608>>, raises |-> FALSE]

NvidiaIssue == "NVIDIA GPU driver - known to cause BSOD with certain configurations"

\* C9: in scenario B the analysis selects 'nvlddmkm.sys', flags it as
\* problematic, gives a cause text that contains the NVIDIA known-issue text
\* and a confidence of exactly 1.0, for every bugcheck code.
C9_ScenarioB ==
    (ScenarioB /\ pc = "done") =>
        /\ Len(results) = 1
        /\ results[1].suspected_driver = 1
        /\ results[1].loaded_drivers[1].name = "nvlddmkm.sys"
        /\ results[1].loaded_drivers[1].is_problematic
        /\ \E i \in 1..Len(results[1].suspected_cause) :
               results[1].suspected_cause[i] = NvidiaIssue
        /\ results[1].confidence = 100

\* Scenario B has been analysed, with a bugcheck code outside the common ones.
C9_Witness ==
    /\ ScenarioB
    /\ pc = "done"
    /\ results[1].crash_info.bugcheck_code = BAD_POOL_HEADER
    /\ results[1].confidence = 100

-----------------------------------------------------------------------------
(* Kernel dumps: one PAGEDU64 file, analysed as the CLI's analyze command  *)
(* does, or with a PageDumpParser the caller built.                        *)

\* Header bugcheck codes: the common ones, codes the knowledge base knows or
\* does not know, and codes whose low byte or second byte is 0x0A.
KernelCodes ==
    {IRQL_NOT_LESS_OR_EQUAL, SYSTEM_SERVICE_EXCEPTION, DRIVER_IRQL_NOT_LESS_OR_EQUAL,
     PAGE_FAULT_IN_NONPAGED_AREA, SYSTEM_THREAD_EXCEPTION_NOT_HANDLED,
     KMODE_EXCEPTION_NOT_HANDLED, KERNEL_MODE_HEAP_CORRUPTION, BAD_POOL_HEADER,
     0, 266, 2560}

KernelParams ==
    {<<0, 0, 0, 0>>, <<4608, 2, 0, 5120>>, <<10, 59, 209, 80>>, <<2147483647, 1, 65536, 255>>}

\* Whole headers, and headers cut short inside and before the bugcheck fields.
KernelData ==
    {KernelFile(PAGEDU64, c, ps) : c \in KernelCodes, ps \in KernelParams}
        \cup {Take(KernelFile(PAGEDU64, c, <<0, 0, 0, 0>>), k) :
                 c \in KernelCodes, k \in {8, 66, 99}}

InitKernel ==
    /\ InitRun
    /\ \E d \in KernelData : files = <<File(d, NoDump)>>
    /\ dump_files = <<1>>
    /\ mode = "single"
    /\ entry \in {"create_parser", "PageDumpParser"}
    /\ save = FALSE
    /\ idx = 1
    /\ pc = entry

NextKernel ==
    \/ CreateParser
    \/ PageDumpParserInit
    \/ NewAnalyzer
    \/ PageDumpParse
    \/ PageDumpExtractCrashInfo
    \/ PageDumpGetLoadedDrivers
    \/ PageDumpGetStackTraces
    \/ FindSuspectedDriver
    \/ DetermineCause
    \/ GenerateRecommendations
    \/ CalculateConfidence
    \/ AnalyzeReturn
    \/ Except

SpecKernel == InitKernel /\ [][NextKernel]_vars

\* The bugcheck code in the header of the file: the four bytes at offset 64,
\* least significant first.
HeaderCode ==
    files[1].data[65] + 256 * files[1].data[66] + 65536 * files[1].data[67]
        + 16777216 * files[1].data[68]

\* The bugcheck parameters in the header, low four bytes of each.
HeaderParam(n) ==
    files[1].data[61 + 8 * n] + 256 * files[1].data[62 + 8 * n]
        + 65536 * files[1].data[63 + 8 * n] + 16777216 * files[1].data[64 + 8 * n]

\* C8: the analysis of a PAGEDU64 file whose header bugcheck code is c gives
\* CrashInfo.bugcheck_code = c, no suspected driver, and confidence 0.6 when c
\* is one of 0x0A, 0x3B, 0xD1, 0x50, 0x7E, 0x1E and 0.5 otherwise, whatever
\* the four bugcheck parameters are.
C8_KernelDump ==
    (pc = "done" /\ Take(files[1].data, 8) = PAGEDU64) =>
        /\ Len(results) = 1
        /\ results[1].crash_info.bugcheck_code = HeaderCode
        /\ results[1].suspected_driver = 0
        /\ results[1].confidence = IF HeaderCode \in {10, 59, 209, 80, 126, 30} THEN 60 ELSE 50

\* Scenario A: code 0x0A, parameters that are not zero, confidence 0.6.
C8_Witness ==
    /\ pc = "done"
    /\ Take(files[1].data, 8) = PAGEDU64
    /\ HeaderCode = 10
    /\ HeaderParam(1) = 4608
    /\ results[1].crash_info.bugcheck_code = 10
    /\ results[1].crash_info.crash_address = 4608
    /\ results[1].confidence = 60

\* The steps of analyze() at which the stack traces have been read.
StacksLoaded ==
    pc \in {"find_suspected_driver", "determine_cause", "generate_recommendations",
            "calculate_confidence", "result", "done"}

\* C15: for a kernel dump, whatever its header holds, get_loaded_drivers and
\* get_stack_traces return empty lists without raising, so the analysis goes
\* on, and no stack frame and no suspected driver is ever reported: the result
\* has no modules, no traces, no suspected driver, a cause text without a
\* driver suffix and a score without the stack and driver boosts.
C15_KernelListsEmpty ==
    parser.kind = "PageDumpParser" =>
        /\ PageDumpParser_get_loaded_drivers(parser.header) = <<>>
        /\ PageDumpParser_get_stack_traces(parser.header) = <<>>
        /\ drivers = <<>>
        /\ stack_traces = <<>>
        /\ suspected_driver = 0
        /\ StacksLoaded => (error = NoError /\ reported = <<>>)
        /\ \A k \in 1..Len(results) :
              /\ results[k].loaded_drivers = <<>>
              /\ results[k].stack_traces = <<>>
              /\ results[k].suspected_driver = 0
              /\ \A i \in 1..Len(results[k].suspected_cause) :
                     results[k].suspected_cause[i] \notin {" Known issue: ", " Suspected driver: "}
              /\ results[k].confidence <= 60

\* A kernel dump whose crash address is not zero has been analysed: nothing
\* but the bugcheck code is reported.
C15_Witness ==
    /\ pc = "done"
    /\ parser.kind = "PageDumpParser"
    /\ HeaderCode = DRIVER_IRQL_NOT_LESS_OR_EQUAL
    /\ Len(results) = 1
    /\ results[1].crash_info.crash_address = 4608
    /\ results[1].loaded_drivers = <<>>
    /\ results[1].stack_traces = <<>>
    /\ results[1].suspected_driver = 0

-----------------------------------------------------------------------------
(* Batches: the CLI batch loop (a parser per file) and analyze_multiple    *)
(* (the analyzer's one parser, built by the caller for the file at path 1). *)

BatchPaths == {1, 2}

\* A minidump of scenario B with a bugcheck code, one without a system-info
\* stream (parse() fails on it), a kernel dump, one cut short, a file that is no
\* dump, an empty file, and a path with no file.
GoodDump ==
    [loads |-> TRUE, sysinfo |-> SysInfo,
     modules |-> [present |-> TRUE,
                  modules |-> <<[name |-> "nvlddmkm.sys", base_address |-> 4096, size |-> 1280]>>],
     threads |-> [present |-> TRUE,
                  threads |-> <<[thread_id |-> 1, walk |-> [addrs |-> <<4608>>, raises |-> FALSE]]>>],
     exception |-> [present |-> TRUE, raises |-> FALSE, exception_code |-> BAD_POOL_HEADER,
                    exception_address |-> 4608, thread_id |-> 1, exception_parameters |-> <<>>]]

BatchFiles ==
    {File(MinidumpBytes, GoodDump),
     File(MinidumpBytes, [GoodDump EXCEPT !.sysinfo = NoSysInfo]),
     File(KernelFile(PAGEDU64, BAD_POOL_HEADER, <<4608, 2, 0, 5120>>), NoDump),
     File(Take(KernelFile(PAGEDU64, BAD_POOL_HEADER, <<0, 0, 0, 0>>), 66), NoDump),
     File(Zeros(8), NoDump),
     File(<<>>, NoDump),
     MissingFile}

\* The CLI lists the files of a directory (and returns at once if there are
\* none); analyze_multiple takes any list of paths.
InitBatch ==
    /\ InitRun
    /\ files \in [BatchPaths -> BatchFiles]
    /\ dump_files \in SeqsUpTo(BatchPaths, MaxFiles)
    /\ mode \in {"batch", "multiple"}
    /\ mode = "batch" => (dump_files # <<>> /\ \A i \in 1..Len(dump_files) : files[dump_files[i]].exists)
    /\ save \in BOOLEAN
    /\ mode = "multiple" => ~save
    /\ entry = "create_parser"
    /\ idx = 0
    /\ pc = IF mode = "batch" THEN "next" ELSE "create_parser"

NextBatch ==
    \/ NextFile
    \/ CreateParser
    \/ MinidumpParserInit
    \/ PageDumpParserInit
    \/ NewAnalyzer
    \/ MinidumpParse
    \/ PageDumpParse
    \/ MinidumpExtractCrashInfo
    \/ PageDumpExtractCrashInfo
    \/ MinidumpGetLoadedDrivers
    \/ PageDumpGetLoadedDrivers
    \/ MinidumpGetStackTraces
    \/ PageDumpGetStackTraces
    \/ FindSuspectedDriver
    \/ DetermineCause
    \/ GenerateRecommendations
    \/ CalculateConfidence
    \/ AnalyzeReturn
    \/ BatchSave
    \/ Except

SpecBatch == InitBatch /\ [][NextBatch]_vars

\* The files at the positions S of the input list, in input order.
RECURSIVE InputsAt(_, _)
InputsAt(S, i) ==
    IF i > Len(dump_files) THEN <<>>
    ELSE (IF i \in S THEN <<dump_files[i]>> ELSE <<>>) \o InputsAt(S, i + 1)

ResultFiles == [k \in 1..Len(results) |-> results[k].dump_file]

IsAnalysisFailure(r) == r.error.type # "sqlite3.Error"
IsStorageFailure(r) == r.error.type = "sqlite3.Error"
FailedFiles(failures) == [k \in 1..Len(failures) |-> failures[k].file]

\* C10 as stated: a failure on one file is reported and does not stop the run,
\* and the results are those of the files that succeeded, in input order: the
\* number of results is the number of files minus the number of failures.
C10_AsStated ==
    pc = "done" =>
        /\ idx = Len(dump_files)
        /\ Len(results) = Len(dump_files) - Len(reported)

\* C10, amended: a failure raised while one file is analysed is reported and
\* does not stop the run; every later file is still attempted, and the results
\* are exactly the results of the files whose analysis succeeded, in input
\* order (number of results = number of files minus number of files whose
\* analysis failed).  In the CLI batch loop with --save, a failure to store a
\* result is reported too, and that file's result stays in the results.
C10_FailureIsolation ==
    /\ pc = "exit" => idx = 0
    /\ pc = "done" =>
           /\ idx = Len(dump_files)
           /\ \E ok \in SUBSET (1..Len(dump_files)) :
                 /\ ResultFiles = InputsAt(ok, 1)
                 /\ FailedFiles(SelectSeq(reported, IsAnalysisFailure))
                        = InputsAt((1..Len(dump_files)) \ ok, 1)
                 /\ \E unsaved \in SUBSET ok :
                        FailedFiles(SelectSeq(reported, IsStorageFailure))
                            = InputsAt(unsaved, 1)
                 /\ mode = "batch" =>
                        \A i \in ok :
                            \/ Take(files[dump_files[i]].data, 4) = MDMP
                            \/ Take(files[dump_files[i]].data, 8) = PAGEDU64
           /\ Len(results) = Len(dump_files) - Len(SelectSeq(reported, IsAnalysisFailure))

\* The CLI batch loop has finished: the first file failed, the second was
\* still analysed and is the only result.
C10_Witness ==
    /\ mode = "batch"
    /\ pc = "done"
    /\ Len(dump_files) = 2
    /\ Len(reported) = 1
    /\ reported[1].file = dump_files[1]
    /\ reported[1].error.type = "ValueError"
    /\ ResultFiles = <<dump_files[2]>>

-----------------------------------------------------------------------------
(* Per-file independence of a batch.                                       *)

\* The parser create_parser builds from the file at a path alone.
OwnParser(path) ==
    LET made == create_parser(files[path])
    IN  IF made.next = "MinidumpParser" THEN MinidumpParser_init(path, files[path]).parser
        ELSE IF made.next = "PageDumpParser" THEN PageDumpParser_init(path, files[path]).parser
        ELSE NoParser

\* The crash info, modules and stacks the decoders give for that file alone.
OwnCrashInfo(path) ==
    IF OwnParser(path).kind = "MinidumpParser"
    THEN MinidumpParser_extract_crash_info(OwnParser(path).minidump)
    ELSE IF OwnParser(path).kind = "PageDumpParser"
    THEN PageDumpParser_extract_crash_info(OwnParser(path).header)
    ELSE NoCrashInfo

OwnModules(path) ==
    IF OwnParser(path).kind = "MinidumpParser"
    THEN MinidumpParser_get_loaded_drivers(OwnParser(path).minidump)
    ELSE <<>>

OwnStacks(path) ==
    IF OwnParser(path).kind = "MinidumpParser"
    THEN MinidumpParser_get_stack_traces(OwnParser(path).minidump)
    ELSE <<>>

\* A module list without the flag the analysis sets on the suspected driver.
Unflagged(driver_list) ==
    [i \in 1..Len(driver_list) |-> [driver_list[i] EXCEPT !.is_problematic = FALSE]]

\* C11: every result of a batch, of analyze_multiple as of the CLI loop, is
\* derived from the contents of the file at its own path: it carries the crash
\* info, the module list and the stack traces that file decodes to, whatever
\* other files are in the batch and whatever their order.
C11_PerFileIndependence ==
    \A k \in 1..Len(results) :
        files[results[k].dump_file].exists =>
            /\ results[k].minidump_info.file_path = results[k].dump_file
            /\ results[k].crash_info = OwnCrashInfo(results[k].dump_file)
            /\ Unflagged(results[k].loaded_drivers) = OwnModules(results[k].dump_file)
            /\ results[k].stack_traces = OwnStacks(results[k].dump_file)

-----------------------------------------------------------------------------
(* The known-bad driver table across a batch, with and without a custom    *)
(* database (knowledge/known_bad_drivers.json).                            *)

\* A custom database: a new entry for 'myfault.sys' and another text for an
\* entry the table has.
CustomDb ==
    [present |-> TRUE,
     entries |-> <<[key |-> "myfault.sys",
                    issue |-> "Fault injection test driver",
                    recommendation |-> "Remove the NotMyFault driver"],
                   [key |-> "vmci.sys",
                    issue |-> "VMware CI driver",
                    recommendation |-> "Update VMware Tools"]>>]

\* A minidump whose only module is the one the custom database adds.
CustomDump ==
    [GoodDump EXCEPT !.modules.modules =
                         <<[name |-> "myfault.sys", base_address |-> 4096, size |-> 1280]>>]

TableFiles ==
    {File(MinidumpBytes, GoodDump),
     File(MinidumpBytes, CustomDump),
     File(KernelFile(PAGEDU64, BAD_POOL_HEADER, <<4608, 2, 0, 5120>>), NoDump),
     File(Zeros(8), NoDump)}

InitTable ==
    /\ custom_db \in {NoCustomDb, CustomDb}
    /\ known_bad = KNOWN_BAD_DRIVERS
    /\ log = <<>>
    /\ detected = "None"
    /\ parser = NoParser
    /\ error = NoError
    /\ minidump_info = NoInfo
    /\ crash_info = NoCrashInfo
    /\ drivers = <<>>
    /\ stack_traces = <<>>
    /\ suspected_driver = 0
    /\ suspected_cause = <<>>
    /\ recommendations = <<>>
    /\ confidence = 0
    /\ results = <<>>
    /\ reported = <<>>
    /\ registers = NoRegisters
    /\ files \in [BatchPaths -> TableFiles]
    /\ dump_files \in SeqsUpTo(BatchPaths, MaxFiles)
    /\ mode \in {"batch", "multiple"}
    /\ mode = "batch" => dump_files # <<>>
    /\ save \in BOOLEAN
    /\ mode = "multiple" => ~save
    /\ entry = "create_parser"
    /\ idx = 0
    /\ pc = IF mode = "batch" THEN "next" ELSE "create_parser"

SpecTable == InitTable /\ [][NextBatch]_vars

\* A write to the table made while the current file is processed.
TableWritten == \E i \in 1..Len(log) : log[i] = "known_bad.update"

\* C12: the known-bad driver table is loaded once and not written afterwards:
\* when the analysis of a file starts after an earlier file of the run has
\* been analysed, no step made for the later file, the construction of its
\* DriverDetector included, has written to the table all analyses share.
C12_LoadedOnce ==
    (pc = "parse" /\ results # <<>>) => ~TableWritten

-----------------------------------------------------------------------------
(* Absent streams: one minidump in which any of the system-info, module,   *)
(* thread and exception streams may be missing, analysed as the CLI's      *)
(* analyze command does.                                                   *)

\* An exception stream that is there but whose decoding raises.
BrokenException ==
    [present |-> TRUE, raises |-> TRUE, exception_code |-> DRIVER_IRQL_NOT_LESS_OR_EQUAL,
     exception_address |-> 4608, thread_id |-> 1, exception_parameters |-> <<4608>>]

StreamDumps ==
    {[loads |-> TRUE, sysinfo |-> si, modules |-> m, threads |-> t, exception |-> e] :
        si \in {NoSysInfo, SysInfo},
        m \in {NoModules} \cup {[present |-> TRUE, modules |-> ms] : ms \in SeqsUpTo(Modules, 1)},
        t \in {NoThreads} \cup {[present |-> TRUE, threads |-> ts] : ts \in ThreadLists},
        e \in Exceptions \cup {BrokenException}}

InitStreams ==
    /\ InitRun
    /\ \E d \in StreamDumps : files = <<File(MinidumpBytes, d)>>
    /\ dump_files = <<1>>
    /\ mode = "single"
    /\ entry = "create_parser"
    /\ save = FALSE
    /\ idx = 1
    /\ pc = "create_parser"

NextStreams ==
    \/ Next
    \/ Except

SpecStreams == InitStreams /\ [][NextStreams]_vars

\* The steps of analyze() at which the crash info has been extracted.
CrashInfoExtracted ==
    pc \in {"get_loaded_drivers", "get_stack_traces", "find_suspected_driver",
            "determine_cause", "generate_recommendations", "calculate_confidence",
            "result", "done"}

NoExceptionStream == ~files[1].dump.exception.present \/ files[1].dump.exception.raises

\* C13: for a minidump with no exception stream, or one whose decoding
\* raises, get_exception_record gives none and extract_crash_info gives a
\* CrashInfo with bugcheck code 0, crash address 0, crash thread id 0, no
\* exception record and no parameters, without raising; no later step of the
\* analysis fails, and the result that is returned carries that CrashInfo.
C13_NoExceptionStream ==
    NoExceptionStream =>
        /\ ~MinidumpParser_get_exception_record(files[1].dump).present
        /\ CrashInfoExtracted =>
              /\ crash_info.bugcheck_code = 0
              /\ crash_info.crash_address = 0
              /\ crash_info.crash_thread_id = 0
              /\ crash_info.parameters = <<>>
              /\ ~crash_info.exception_record.present
              /\ error = NoError
        /\ (pc \in {"raised", "exit"}) => ~files[1].dump.sysinfo.present
        /\ pc = "done" =>
              /\ Len(results) = 1
              /\ results[1].crash_info.bugcheck_code = 0
              /\ results[1].crash_info.parameters = <<>>

\* A minidump with modules and threads whose exception stream cannot be
\* decoded has been analysed to the end.
C13_Witness ==
    /\ pc = "done"
    /\ files[1].dump.exception.present
    /\ files[1].dump.exception.raises
    /\ files[1].dump.modules.present
    /\ Len(results) = 1
    /\ results[1].stack_traces # <<>>
    /\ results[1].crash_info.bugcheck_code = 0
    /\ results[1].crash_info.crash_thread_id = 0

\* C14: for a minidump that loads, with any of the system-info, module-list
\* and thread-list streams absent, parse, get_loaded_drivers and
\* get_stack_traces give an empty or default value and do not raise, so the
\* analysis returns its result.
C14_AbsentStreams ==
    /\ pc \notin {"raised", "exit"}
    /\ pc = "done" =>
          /\ Len(results) = 1
          /\ ~files[1].dump.modules.present => results[1].loaded_drivers = <<>>
          /\ ~files[1].dump.threads.present => results[1].stack_traces = <<>>

-----------------------------------------------------------------------------
(* The stack walker: one minidump whose threads have walks of up to one    *)
(* frame more than the limit, some of which fail.                          *)

\* A walk of n frames at consecutive addresses, from 0x1001 on.
DeepWalk(n, raises) == [addrs |-> [i \in 1..n |-> 4096 + i], raises |-> raises]

\* Walks of no frame, one frame, the limit and one more than the limit, each
\* ending normally or with a failure after its last frame.
DeepWalks ==
    {DeepWalk(n, r) : n \in {0, 1, MAX_FRAMES, MAX_FRAMES + 1}, r \in BOOLEAN}

DeepThreadLists ==
    {[i \in 1..Len(ws) |-> [thread_id |-> i, walk |-> ws[i]]] :
        ws \in SeqsUpTo(DeepWalks, MaxThreads + 1)}

WalkDumps ==
    {[loads |-> TRUE, sysinfo |-> SysInfo, modules |-> m, threads |-> t,
      exception |-> NoException] :
        m \in {NoModules,
               [present |-> TRUE,
                modules |-> <<[name |-> "nvlddmkm.sys", base_address |-> 4096, size |-> 1280]>>]},
        t \in {NoThreads} \cup {[present |-> TRUE, threads |-> ts] : ts \in DeepThreadLists}}

InitWalk ==
    /\ InitRun
    /\ \E d \in WalkDumps : files = <<File(MinidumpBytes, d)>>
    /\ dump_files = <<1>>
    /\ mode = "single"
    /\ entry = "create_parser"
    /\ save = FALSE
    /\ idx = 1
    /\ pc = "create_parser"

SpecWalk == InitWalk /\ [][Next]_vars

\* The threads of the file, and those whose walk gives frames to the loop: at
\* least 50 of them, or at least one and no failure.
FileThreads == files[1].dump.threads.threads

Walked(thread) ==
    \/ Len(thread.walk.addrs) >= 50
    \/ Len(thread.walk.addrs) >= 1 /\ ~thread.walk.raises

RECURSIVE WalkedFrom(_)
WalkedFrom(i) ==
    IF i > Len(FileThreads) THEN <<>>
    ELSE (IF Walked(FileThreads[i]) THEN <<i>> ELSE <<>>) \o WalkedFrom(i + 1)

FrameAddresses(trace) == [j \in 1..Len(trace.frames) |-> trace.frames[j].instruction_address]

\* C16: every stack trace returned has at least 1 and at most 50 frames, the
\* first frames of the walk in the walker's order; a thread whose walk fails
\* before the 50th frame is taken (after some frames or none), or gives no
\* frame, has no trace at all, and the traces of all other threads, before
\* and after it, are returned in thread order.
C16_StackWalk ==
    StacksLoaded =>
        /\ \A t \in 1..Len(stack_traces) :
               Len(stack_traces[t].frames) >= 1 /\ Len(stack_traces[t].frames) <= 50
        /\ Len(stack_traces) = Len(WalkedFrom(1))
        /\ \A t \in 1..Len(stack_traces) :
               LET thread == FileThreads[WalkedFrom(1)[t]]
               IN  /\ stack_traces[t].thread_id = thread.thread_id
                   /\ FrameAddresses(stack_traces[t]) = Take(thread.walk.addrs, 50)

\* Three threads: the first walk is longer than the limit, the second fails
\* after one frame, the third has one frame; the traces are those of the first
\* thread, cut at 50 frames, and of the third.
C16_Witness ==
    /\ pc = "find_suspected_driver"
    /\ Len(FileThreads) = 3
    /\ Len(FileThreads[1].walk.addrs) = 51
    /\ Len(FileThreads[2].walk.addrs) = 1
    /\ FileThreads[2].walk.raises
    /\ FileThreads[3].walk = DeepWalk(1, FALSE)
    /\ Len(stack_traces) = 2
    /\ Len(stack_traces[1].frames) = 50
    /\ stack_traces[2].thread_id = 3

-----------------------------------------------------------------------------
(* The attribution engine on its own: steps 5 to 8 of analyze() on the     *)
(* crash info, module list and stack traces of any IMinidumpParser, whose  *)
(* traces may have no frames.                                              *)

GivenFrame(address) == [instruction_address |-> address, module_name |-> "Unknown", offset |-> 0]

GivenFrameLists == {<<>>, <<GivenFrame(4608)>>, <<GivenFrame(5376), GivenFrame(5120)>>}

GivenTraceLists ==
    {[i \in 1..Len(fs) |-> [thread_id |-> i, frames |-> fs[i]]] :
        fs \in SeqsUpTo(GivenFrameLists, MaxThreads)}

\* Module names as a minidump may carry them: bare file names, a name in
\* capitals, a full path, and a path in which two keys of the known-bad table
\* occur ('ks.sys' before 'nvlddmkm.sys').
GivenModuleNames ==
    ModuleNames \cup {"NVLDDMKM.SYS", "C:\\Windows\\System32\\ntoskrnl.exe",
                      "C:\\ks.sys.old\\nvlddmkm.sys"}

\* The ranges of the modules, and an empty one at 0x1200.
GivenModuleRanges == ModuleRanges \cup {<<4608, 0>>}

\* No module, one module of any name and range, or two of the minidumps' modules.
GivenDriverLists ==
    {<<>>}
        \cup {<<DriverInfo(n, r[1], r[2])>> : n \in GivenModuleNames, r \in GivenModuleRanges}
        \cup {<<DriverInfo(m.name, m.base_address, m.size),
                DriverInfo(n.name, n.base_address, n.size)>> : m, n \in Modules}

GivenCrashInfos ==
    {MinidumpParser_extract_crash_info([NoDump EXCEPT !.exception = e]) : e \in Exceptions}

InitEngine ==
    /\ custom_db = NoCustomDb
    /\ known_bad = KNOWN_BAD_DRIVERS
    /\ log = <<>>
    /\ detected = "None"
    /\ parser = NoParser
    /\ error = NoError
    /\ minidump_info = NoInfo
    /\ crash_info \in GivenCrashInfos
    /\ drivers \in GivenDriverLists
    /\ stack_traces \in GivenTraceLists
    /\ suspected_driver = 0
    /\ suspected_cause = <<>>
    /\ recommendations = <<>>
    /\ confidence = 0
    /\ results = <<>>
    /\ reported = <<>>
    /\ registers = NoRegisters
    /\ files = <<File(MinidumpBytes, SmallDump)>>
    /\ dump_files = <<1>>
    /\ mode = "single"
    /\ entry = "create_parser"
    /\ save = FALSE
    /\ idx = 1
    /\ pc = "find_suspected_driver"

NextEngine ==
    \/ FindSuspectedDriver
    \/ DetermineCause
    \/ GenerateRecommendations
    \/ CalculateConfidence

SpecEngine == InitEngine /\ [][NextEngine]_vars

\* The score's other three terms: base, suspected driver, known-bad match and
\* common code, in hundredths.
OtherEvidence ==
    50 + (IF suspected_driver # 0 THEN 15 ELSE 0)
       + (IF SuspectIsKnownBad THEN 25 ELSE 0)
       + (IF crash_info.bugcheck_code \in {10, 59, 209, 80, 126, 30} THEN 10 ELSE 0)

SomeTraceHasFrames == \E t \in 1..Len(stack_traces) : Len(stack_traces[t].frames) >= 1

-----------------------------------------------------------------------------
(* Further claims on the attribution of one minidump (Spec).               *)

\* The modules of the list whose range holds an address.
Holding(a) ==
    {i \in 1..Len(drivers) :
        drivers[i].base_address <= a /\ a < drivers[i].base_address + drivers[i].size}

\* C18: when an address lies inside two or more modules, the lookup returns
\* the one of them that comes first when the modules are sorted by base
\* address (a module of least base address among those that hold it),
\* whatever the order of the modules in the list.
C18_SortedTieBreak ==
    DriversLoaded =>
        \A a \in LookedUp :
            Cardinality(Holding(a)) >= 2 =>
                /\ find_driver_by_address(drivers, a) \in Holding(a)
                /\ \A j \in Holding(a) :
                       drivers[find_driver_by_address(drivers, a)].base_address
                           <= drivers[j].base_address

\* The known-bad modules of the list.
KnownBadModules ==
    {i \in 1..Len(drivers) : MatchingKeys(known_bad, drivers[i].name) # {}}

First(S) == CHOOSE i \in S : \A j \in S : i <= j

\* The traces, each cut to its first frame.
TopFramesOnly ==
    [t \in 1..Len(stack_traces) |->
        [thread_id |-> stack_traces[t].thread_id,
         frames |-> <<stack_traces[t].frames[1]>>]]

\* C19: when no trace's first frame resolves to a module outside the system
\* list, the suspected driver is the first known-bad module of the list; if no
\* module is known-bad, it is the first module that holds the crash address,
\* system drivers included; it is none exactly when all three strategies
\* fail.  The frames after the first of each trace do not influence the
\* selection.
C19_Fallbacks ==
    SuspectChosen =>
        /\ NonSystemTraces = {} =>
               suspected_driver =
                   IF KnownBadModules # {} THEN First(KnownBadModules)
                   ELSE IF Holding(crash_info.crash_address) # {}
                   THEN First(Holding(crash_info.crash_address))
                   ELSE 0
        /\ suspected_driver = 0 <=>
               /\ NonSystemTraces = {}
               /\ KnownBadModules = {}
               /\ Holding(crash_info.crash_address) = {}
        /\ suspected_driver =
               find_suspected_driver(known_bad, crash_info, drivers, TopFramesOnly)

\* The first frame resolves to the kernel, the second lies in another module,
\* no module is known-bad and none holds the crash address: no driver is
\* suspected.
C19_Witness ==
    /\ pc = "determine_cause"
    /\ Len(drivers) = 2
    /\ drivers[1].name = "myfault.sys" /\ drivers[1].base_address = 4096
    /\ drivers[2].name = "ntoskrnl.exe" /\ drivers[2].base_address = 5120
    /\ Len(stack_traces) = 1
    /\ FrameAddresses(stack_traces[1]) = <<5376, 5120>>
    /\ stack_traces[1].frames[2].module_name = "myfault.sys"
    /\ crash_info.crash_address = 6400
    /\ suspected_driver = 0

\* The steps of analyze() at which the cause text has been composed.
CauseDetermined ==
    pc \in {"generate_recommendations", "calculate_confidence", "result", "done"}

\* At most the first 3 entries of a list, with ", " between them.
FirstThreeJoined(cs) ==
    IF Len(cs) = 0 THEN <<>>
    ELSE IF Len(cs) = 1 THEN <<cs[1]>>
    ELSE IF Len(cs) = 2 THEN <<cs[1], ", ", cs[2]>>
    ELSE <<cs[1], ", ", cs[2], ", ", cs[3]>>

\* C20: the cause text is the knowledge base's description, then, if the
\* knowledge base has common causes, at most the first 3 of them joined by
\* commas, then the known-issue text if the suspected module matches the
\* known-bad table, 'Suspected driver: <name>' if there is a suspected module
\* that does not match, and nothing if there is none; the two suffixes never
\* both appear.
C20_CauseText ==
    CauseDetermined =>
        LET causes == KbRecord(crash_info.bugcheck_code).common_causes
            head == <<KbRecord(crash_info.bugcheck_code).description>>
                        \o (IF causes # <<>>
                            THEN <<" Common causes: ">> \o FirstThreeJoined(causes)
                            ELSE <<>>)
            suffix ==
                IF suspected_driver = 0 THEN <<>>
                ELSE IF SuspectIsKnownBad
                THEN LET entry_ == known_bad[First(MatchingKeys(known_bad,
                                                   drivers[suspected_driver].name))]
                     IN  <<" Known issue: ", entry_.issue, ". ", entry_.recommendation>>
                ELSE <<" Suspected driver: ", drivers[suspected_driver].name>>
        IN  /\ suspected_cause = head \o suffix
            /\ ~(/\ \E i \in 1..Len(suspected_cause) : suspected_cause[i] = " Known issue: "
                 /\ \E i \in 1..Len(suspected_cause) : suspected_cause[i] = " Suspected driver: ")

\* A code with four common causes and a suspected driver that is not known-bad:
\* the text names three causes and the driver.
C20_Witness ==
    /\ pc = "generate_recommendations"
    /\ crash_info.bugcheck_code = IRQL_NOT_LESS_OR_EQUAL
    /\ suspected_driver # 0
    /\ drivers[suspected_driver].name = "myfault.sys"
    /\ \E i \in 1..Len(suspected_cause) : suspected_cause[i] = "Corrupted system files"
    /\ \A i \in 1..Len(suspected_cause) : suspected_cause[i] # "Faulty RAM"
    /\ suspected_cause[Len(suspected_cause)] = "myfault.sys"

\* The steps of analyze() at which the recommendations have been generated.
RecommendationsGenerated == pc \in {"calculate_confidence", "result", "done"}

\* The recommendations of the knowledge base for the crash's code, as a set.
KbRecommendations == Range(KbRecord(crash_info.bugcheck_code).recommendations)

\* The two driver-level entries for the suspected driver.
SpecificEntry ==
    <<"Driver-specific: ",
      known_bad[First(MatchingKeys(known_bad, drivers[suspected_driver].name))].recommendation>>
UpdateEntry == <<"Update '", drivers[suspected_driver].name, "' to the latest version">>

\* C21: with a suspected module, the recommendation list holds exactly one of
\* the two driver-level entries: 'Driver-specific: <rec>' if and only if the
\* module matched the known-bad table, "Update '<name>' to the latest version"
\* if and only if it did not (an entry the knowledge base itself lists for the
\* code is not counted as driver-level); with no suspected module the list
\* holds neither and is the knowledge base's recommendations, each once.
C21_DriverLevelChoice ==
    RecommendationsGenerated =>
        IF suspected_driver = 0
        THEN /\ Range(recommendations) = KbRecommendations
             /\ Len(recommendations) = Cardinality(KbRecommendations)
             /\ \A i \in 1..Len(recommendations) :
                    recommendations[i][1] # "Update '"
        ELSE IF SuspectIsKnownBad
        THEN /\ \E i \in 1..Len(recommendations) : recommendations[i] = SpecificEntry
             /\ \A i \in 1..Len(recommendations) : recommendations[i] # UpdateEntry
             /\ \A i \in 1..Len(recommendations) :
                    recommendations[i][1] = "Driver-specific: " =>
                        (recommendations[i] = SpecificEntry
                             \/ recommendations[i] \in KbRecommendations)
        ELSE /\ \E i \in 1..Len(recommendations) : recommendations[i] = UpdateEntry
             /\ \A i \in 1..Len(recommendations) :
                    recommendations[i][1] = "Driver-specific: " =>
                        recommendations[i] \in KbRecommendations
             /\ \A i \in 1..Len(recommendations) :
                    recommendations[i][1] = "Update '" => recommendations[i] = UpdateEntry

\* A known-bad suspect whose code has no driver-level entry in the knowledge
\* base: the list holds the table's advice and no update advice.
C21_Witness ==
    /\ pc = "calculate_confidence"
    /\ crash_info.bugcheck_code = BAD_POOL_HEADER
    /\ SuspectIsKnownBad
    /\ \E i \in 1..Len(recommendations) :
           recommendations[i] =
               <<"Driver-specific: ", "Update to latest NVIDIA driver or perform clean install">>
    /\ \A i \in 1..Len(recommendations) : recommendations[i][1] # "Update '"

-----------------------------------------------------------------------------
(* The register context of a kernel dump: one PAGEDU64 file handed to      *)
(* PageDumpParser and asked for its registers, as test_parse_file does.    *)

\* What follows the header in the file: "PAGE" repeated (the pad of a dump),
\* zeros, or bytes that count up.
Fillers == {"PAGE", "zeros", "count"}

FillByte(filler, offset) ==
    CASE filler = "PAGE" -> <<80, 65, 71, 69>>[(offset % 4) + 1]
      [] filler = "zeros" -> 0
      [] OTHER -> offset % 256

\* A file of the given length: the header, then the filler.
ContextFile(code, filler, length) ==
    LET header == KernelFile(PAGEDU64, code, <<4608, 2, 0, 5120>>)
    IN  [i \in 1..length |-> IF i <= Len(header) THEN header[i] ELSE FillByte(filler, i - 1)]

\* File lengths: inside the header, the header alone, up to the context
\* block, 14 and 16 bytes into it, inside the registers, one byte short of the
\* whole block, the whole block, and more.
ContextLengths ==
    {8, 100, OFFSET_CONTEXT_RECORD, OFFSET_CONTEXT_RECORD + 14, OFFSET_CONTEXT_RECORD + 16,
     OFFSET_CONTEXT_RECORD + 130, OFFSET_CONTEXT_RECORD + ctx_size - 1,
     OFFSET_CONTEXT_RECORD + ctx_size, OFFSET_CONTEXT_RECORD + ctx_size + 1}

ContextData ==
    {ContextFile(c, f, n) :
        c \in {IRQL_NOT_LESS_OR_EQUAL, BAD_POOL_HEADER, 0}, f \in Fillers, n \in ContextLengths}

InitContext ==
    /\ InitRun
    /\ \E d \in ContextData : files = <<File(d, NoDump)>>
    /\ dump_files = <<1>>
    /\ mode = "test_parse_file"
    /\ entry = "PageDumpParser"
    /\ save = FALSE
    /\ idx = 1
    /\ pc = "PageDumpParser"

NextContext ==
    \/ PageDumpParserInit
    \/ GetContextRegisters
    \/ Except

SpecContext == InitContext /\ [][NextContext]_vars

RegisterNames ==
    {"Rax", "Rcx", "Rdx", "Rbx", "Rsp", "Rbp", "Rsi", "Rdi", "Rip",
     "R8", "R9", "R10", "R11", "R12", "R13", "R14", "R15"}

\* get_context_registers has returned.
RegistersReturned == mode = "test_parse_file" /\ pc = "done"

\* C22: once the parser of a kernel dump is built, get_context_registers
\* returns without raising, whatever the file holds and however long it is;
\* for a file shorter than 0x200 + 0x4F0 bytes it returns no register, and
\* otherwise it returns no register or exactly the 17 registers (Rax, Rcx,
\* Rdx, Rbx, Rsp, Rbp, Rsi, Rdi, Rip, R8 to R15).
C22_RegistersNeverFail ==
    /\ (mode = "test_parse_file" /\ parser.kind = "PageDumpParser") =>
           /\ pc \in {"get_context_registers", "done"}
           /\ error = NoError
           /\ reported = <<>>
    /\ RegistersReturned =>
           /\ Len(files[1].data) < 512 + 1264 => DOMAIN registers = {}
           /\ DOMAIN registers = {} \/ DOMAIN registers = RegisterNames
           /\ Cardinality(RegisterNames) = 17

\* A file that ends inside the register block, after Rax and before the end
\* of Rcx: no register is returned.
C22_Witness ==
    /\ RegistersReturned
    /\ Len(files[1].data) = 512 + 130
    /\ files[1].data[513] = 0
    /\ DOMAIN registers = {}

\* The 16 bytes at offset 0x200 of the file are 'PAGEPAGEPAGEPAGE'.
PadAtContext ==
    /\ Len(files[1].data) >= 512 + 16
    /\ SubSeq(files[1].data, 513, 528) =
           <<80, 65, 71, 69, 80, 65, 71, 69, 80, 65, 71, 69, 80, 65, 71, 69>>

\* C23: when the bytes at offset 0x200 of a kernel dump are the pad signature
\* ('PAGE' repeated) and the file is long enough for a whole context block,
\* get_context_registers takes the block as absent and returns no register.
C23_FillerDetected ==
    (RegistersReturned /\ PadAtContext /\ Len(files[1].data) >= 512 + 1264) =>
        DOMAIN registers = {}

-----------------------------------------------------------------------------
(* The crash info of both decoders: one file, a minidump (with its streams *)
(* present or absent) or a kernel dump, analysed as the CLI's analyze      *)
(* command does.                                                           *)

InitCrashInfo ==
    /\ InitRun
    /\ \/ \E d \in StreamDumps : files = <<File(MinidumpBytes, d)>>
       \/ \E d \in KernelData : files = <<File(d, NoDump)>>
    /\ dump_files = <<1>>
    /\ mode = "single"
    /\ entry = "create_parser"
    /\ save = FALSE
    /\ idx = 1
    /\ pc = "create_parser"

NextCrashInfo ==
    \/ Next
    \/ NextKernel

SpecCrashInfo == InitCrashInfo /\ [][NextCrashInfo]_vars

-----------------------------------------------------------------------------
(* Further claims on the analysis of one minidump (Spec).                  *)

\* C25: every frame of every stack trace carries the name of a module whose
\* range [base, base + size) holds its instruction address and an offset equal
\* to the address minus that module's base; a frame whose address no module
\* holds is named 'Unknown' and has offset 0.
C25_FrameResolution ==
    StacksLoaded =>
        \A t \in 1..Len(stack_traces) : \A k \in 1..Len(stack_traces[t].frames) :
            LET frame == stack_traces[t].frames[k]
            IN  IF Holding(frame.instruction_address) = {}
                THEN frame.module_name = "Unknown" /\ frame.offset = 0
                ELSE \E i \in Holding(frame.instruction_address) :
                        /\ frame.module_name = drivers[i].name
                        /\ frame.offset = frame.instruction_address - drivers[i].base_address

-----------------------------------------------------------------------------
(* Further claims on the attribution engine on its own (SpecEngine).       *)

\* The name contains an entry of the system-driver list, case ignored.
ContainsSystemName(name) ==
    \E k \in 1..Len(system_drivers) : key_in_name[system_drivers[k]][name]

\* C26: a module whose name contains an entry of the system-driver list as a
\* case-insensitive substring (a full path ending in 'ntoskrnl.exe', say) is a
\* system driver for is_system_driver, and strategy 1 of the suspected-driver
\* selection never selects it from a stack frame.
C26_SystemSubstring ==
    SuspectChosen =>
        \A i \in 1..Len(drivers) :
            ContainsSystemName(drivers[i].name) =>
                /\ is_system_driver(drivers[i].name)
                /\ suspected_driver = i => StackCandidates(drivers, stack_traces) = {}

\* The traces whose first frame lies in the range of module i.
TopFramesIn(i) ==
    {t \in 1..Len(stack_traces) :
        /\ Len(stack_traces[t].frames) > 0
        /\ drivers[i].base_address <= stack_traces[t].frames[1].instruction_address
        /\ stack_traces[t].frames[1].instruction_address
               < drivers[i].base_address + drivers[i].size}

\* C27: the suspected driver is none or a module of the given list; a module
\* that is selected holds a deciding address in [base, base + size) (the first
\* frame of a trace, or the crash address) or has a known-bad name; with an
\* empty list the result is none, and a module of size 0 is selected only for
\* its known-bad name, never by an address.
C27_SuspectFromList ==
    SuspectChosen =>
        /\ suspected_driver \in 0..Len(drivers)
        /\ drivers = <<>> => suspected_driver = 0
        /\ suspected_driver # 0 =>
               \/ TopFramesIn(suspected_driver) # {}
               \/ suspected_driver \in Holding(crash_info.crash_address)
               \/ suspected_driver \in KnownBadModules
        /\ (suspected_driver # 0 /\ drivers[suspected_driver].size = 0) =>
               /\ suspected_driver \in KnownBadModules
               /\ TopFramesIn(suspected_driver) = {}
               /\ suspected_driver \notin Holding(crash_info.crash_address)

\* A module of size 0 sits at the address of the first frame and of the crash
\* and is not known-bad: no driver is suspected.
C27_Witness ==
    /\ pc = "determine_cause"
    /\ Len(drivers) = 1
    /\ drivers[1].name = "myfault.sys"
    /\ drivers[1].size = 0
    /\ Len(stack_traces) >= 1
    /\ Len(stack_traces[1].frames) = 1
    /\ stack_traces[1].frames[1].instruction_address = drivers[1].base_address
    /\ crash_info.crash_address = drivers[1].base_address
    /\ suspected_driver = 0

\* C28: the confidence returned is one of 0.50, 0.60, 0.65, 0.75, 0.80, 0.90
\* and 1.00; the known-bad boost comes only on top of the driver boost, so a
\* known-bad suspected driver gives at least 0.90, and no suspected driver
\* gives at most 0.75.
C28_ConfidenceValues ==
    pc = "result" =>
        /\ confidence \in {50, 60, 65, 75, 80, 90, 100}
        /\ SuspectIsKnownBad => confidence >= 90
        /\ suspected_driver = 0 => confidence <= 75

\* A known-bad suspected driver, no stack trace and a code that is not a
\* common one: 0.5 + 0.15 + 0.25.
C28_Witness ==
    /\ pc = "result"
    /\ SuspectIsKnownBad
    /\ stack_traces = <<>>
    /\ crash_info.bugcheck_code = BAD_POOL_HEADER
    /\ confidence = 90

-----------------------------------------------------------------------------
(* Further claims on the analysis of one minidump (Spec), continued.       *)

\* The modules of the file's module stream.
FileModules ==
    IF files[1].dump.modules.present THEN files[1].dump.modules.modules ELSE <<>>

\* C29: analyze() changes the is_problematic flag of at most one driver, the
\* suspected one, which it sets to whether that driver's name matches the
\* known-bad table; the flag shows in result.loaded_drivers, where every other
\* driver keeps is_problematic = False even with a known-bad name; no other
\* field of a driver, of the crash info or of the stack traces is changed, and
\* result.ai_analysis is none.
C29_OnlySuspectFlagged ==
    pc = "done" =>
        /\ Len(results) = 1
        /\ Len(results[1].loaded_drivers) = Len(FileModules)
        /\ \A i \in 1..Len(FileModules) :
               /\ results[1].loaded_drivers[i].name = FileModules[i].name
               /\ results[1].loaded_drivers[i].base_address = FileModules[i].base_address
               /\ results[1].loaded_drivers[i].size = FileModules[i].size
               /\ results[1].loaded_drivers[i].is_problematic =
                      (/\ i = results[1].suspected_driver
                       /\ MatchingKeys(known_bad, FileModules[i].name) # {})
        /\ results[1].suspected_driver = suspected_driver
        /\ results[1].crash_info = crash_info
        /\ results[1].crash_info = MinidumpParser_extract_crash_info(files[1].dump)
        /\ results[1].stack_traces = stack_traces
        /\ results[1].stack_traces = MinidumpParser_get_stack_traces(files[1].dump)
        /\ ~results[1].ai_analysis.present

\* Two modules with a known-bad name; the first frame lies in the second only,
\* which is suspected and flagged, and the first keeps its flag unset.
C29_Witness ==
    /\ pc = "done"
    /\ Len(results[1].loaded_drivers) = 2
    /\ results[1].loaded_drivers[1].name = "nvlddmkm.sys"
    /\ results[1].loaded_drivers[2].name = "nvlddmkm.sys"
    /\ results[1].suspected_driver = 2
    /\ results[1].loaded_drivers[2].is_problematic
    /\ ~results[1].loaded_drivers[1].is_problematic

-----------------------------------------------------------------------------
(* The three known-bad queries, on the attribution engine (SpecEngine).    *)

\* The positions of the table's keys that, lowercased, occur in the lowercased
\* name.
KeysInName(name) ==
    {k \in 1..Len(known_bad) :
        Contains(Lower(CharsOf[name]), Lower(CharsOf[known_bad[k].key]))}

\* The queries agree on one driver, and take their text from the first
\* matching entry.
QueriesAgree(driver) ==
    LET hits == KeysInName(driver.name)
        known_issue == get_known_issue(known_bad, driver)
        rec == get_recommendation(known_bad, driver)
    IN  /\ is_problematic(known_bad, driver) <=> hits # {}
        /\ known_issue.present <=> is_problematic(known_bad, driver)
        /\ rec.present <=> is_problematic(known_bad, driver)
        /\ hits # {} =>
               LET info == known_bad[First(hits)]
               IN  /\ known_issue.text = <<info.issue, ". ", info.recommendation>>
                   /\ rec.text = <<info.recommendation>>
                   /\ info.issue # ""
                   /\ info.recommendation # ""

\* C30: the three known-bad queries agree for every driver name:
\* get_known_issue and get_recommendation return a value if and only if
\* is_problematic is true (some key of the table, lowercased, is a substring
\* of the lowercased name), and both take their text from the same entry, the
\* first matching key in table order; so a known-bad suspected driver gets a
\* non-empty known issue in the cause text and a 'Driver-specific'
\* recommendation with that entry's text.
C30_QueriesAgree ==
    /\ \A i \in 1..Len(drivers) : QueriesAgree(drivers[i])
    /\ (RecommendationsGenerated /\ suspected_driver # 0
            /\ is_problematic(known_bad, drivers[suspected_driver])) =>
           LET info == known_bad[First(KeysInName(drivers[suspected_driver].name))]
               n == Len(suspected_cause)
           IN  /\ n >= 4
               /\ SubSeq(suspected_cause, n - 3, n)
                      = <<" Known issue: ", info.issue, ". ", info.recommendation>>
               /\ info.issue # ""
               /\ \E r \in 1..Len(recommendations) :
                      recommendations[r] = <<"Driver-specific: ", info.recommendation>>

\* The suspected driver's path holds the keys 'ks.sys' and 'nvlddmkm.sys'; the
\* cause and the recommendation both carry the text of 'nvlddmkm.sys', the
\* earlier key of the table.
C30_Witness ==
    /\ pc = "calculate_confidence"
    /\ suspected_driver = 1
    /\ drivers[1].name = "C:\\ks.sys.old\\nvlddmkm.sys"
    /\ Cardinality(KeysInName(drivers[1].name)) = 2
    /\ suspected_cause[Len(suspected_cause)]
           = "Update to latest NVIDIA driver or perform clean install"
    /\ \E r \in 1..Len(recommendations) :
           recommendations[r] = <<"Driver-specific: ",
                                  "Update to latest NVIDIA driver or perform clean install">>

=============================================================================
